---------------------------- MODULE Spec2Model ----------------------------
(***************************************************************************)
(* Almanac engine of the wx-dashboard (src/unnamed/part_000): toJulian,    *)
(* moonPhase, sunriseSunset and getRokuyo, driven by the dashboard's       *)
(* clock (setNow(new Date())); then its network helpers: fetchViaProxy     *)
(* of the same file, and the CORS proxy and the service worker's           *)
(* PREFLIGHT_CACHE handler of src/worker/src/index.js.                     *)
(*                                                                         *)
(* Numbers.  TLC integers are 32 bit, JavaScript Numbers are IEEE doubles. *)
(*  - An instant (a Date: an integer count of milliseconds) is the record  *)
(*    [day, ms]: t = day * 86400000 + ms, 0 <= ms < 86400000.              *)
(*  - toJulian is modelled bit-exactly as the two IEEE operations it       *)
(*    performs (a correctly rounded division, then a correctly rounded     *)
(*    addition); the double it returns is identified by its binade e and   *)
(*    its position (w, h, g) on that binade's grid.                        *)
(*  - Everything computed from a Julian date is modelled in exact          *)
(*    arithmetic on the exact value of the instant (durations in days,     *)
(*    seconds and microseconds; trigonometry in fixed point); the double   *)
(*    differs from the exact value by less than 2^-31 day in the years     *)
(*    the model covers.                                                    *)
(*  - The steps of the trigonometry, of sunriseSunset and of getRokuyo     *)
(*    that take a computed value are functions over Int (applied with      *)
(*    [ ]); the operators named after the source's functions compose them. *)
(***************************************************************************)
EXTENDS Integers, Sequences, FiniteSets, TLC

VARIABLES
  now,       \* the dashboard's clock: the Date last passed to setNow
  prev,      \* the Date before that
  steps,     \* clock updates since the page was opened
  jd,        \* toJulian(now)
  jdPrev,    \* toJulian(prev)
  moon,      \* moonPhase(now)
  moonPrev,  \* moonPhase(prev)
  lat,       \* latitude of the selected airport, in 1/10000 degree
  lng,       \* longitude of the selected airport, in 1/10000 degree
  cosH0,     \* the local cosH0 of sunriseSunset(now, lat, lng)
  sun,       \* sunriseSunset(now, lat, lng)
  rokuyo,    \* getRokuyo(now)
  rokuyoPrev,\* getRokuyo(prev)
  argDate,   \* the Date a caller passes: its time value
  call,      \* the last call made with it: function, arguments, result
  first,     \* the first call made since the page was opened
  pc,        \* getRokuyo run step by step: the loop it is in
  jstToday,  \* its jst date { y, m, d }
  estimate,  \* the k line 311 starts from
  loopK,     \* its local k
  loopKK,    \* the local kk of getNewYearK(y)
  nyK,       \* what getNewYearK(y) returned
  sweepAt,   \* a lunation swept in equal steps: the steps taken
  shown,     \* how many of them showed each phase name
  lunationK, \* the lunation index k newMoonJDE was last called with
  jdeAt,     \* newMoonJDE(k)
  jdeBefore, \* newMoonJDE(k - 1)
  civilFrom, \* a civil date, as the day number of its 00:00 UTC instant
  civilTo,   \* a civil date on or after it, likewise
  jdFrom,    \* JD(y, m, d) of the first date
  jdTo,      \* JD(y, m, d) of the second
  jdUTC,     \* toJulian of the second date's 00:00 UTC instant
  request,   \* the request the proxy worker is handling: method, path, search
  upstreamUrl, \* the URL it has fetched upstream for it
  resp,      \* what the upstream fetch settled with
  response,  \* the Response the worker returned
  swPc,      \* the service worker's PREFLIGHT_CACHE handler: where it is
  urls,      \* its local urls
  results,   \* what became of each URL taken from urls so far
  cached,    \* its local cached
  failed,    \* its local failed
  cache,     \* the URLs that have a response in the cache CACHE_NAME
  posted,    \* the messages posted to the clients, in order
  proxyPc,   \* fetchViaProxy: the await it is at, or how it settled
  proxyUrls, \* its local urls
  tried,     \* how each proxy tried so far failed, in the order tried
  settled    \* what its promise resolved to or rejected with

julianVars == <<jd, jdPrev>>

moonVars == <<moon, moonPrev>>

sunVars == <<lat, lng, cosH0, sun>>

rokuyoVars == <<rokuyo, rokuyoPrev>>

callVars == <<argDate, call, first>>

searchVars == <<pc, jstToday, estimate, loopK, loopKK, nyK>>

phaseVars == <<sweepAt, shown>>

\* the variables of the views that follow the almanac's clock
clockVars ==
  <<now, prev, steps, julianVars, moonVars, sunVars, rokuyoVars, callVars,
    searchVars>>

\* the variables of the other views
newMoonVars == <<lunationK, jdeAt, jdeBefore>>

civilVars == <<civilFrom, civilTo, jdFrom, jdTo, jdUTC>>

workerVars == <<request, upstreamUrl, resp, response>>

preflightVars == <<swPc, urls, results, cached, failed, cache, posted>>

proxyVars == <<proxyPc, proxyUrls, tried, settled>>

laterVars ==
  <<phaseVars, newMoonVars, civilVars, workerVars, preflightVars,
    proxyVars>>

vars == <<clockVars, laterVars>>

\* value of a variable the running view does not compute
NotComputed == [notComputed |-> TRUE]

JulianIdle == jd = NotComputed /\ jdPrev = NotComputed

MoonIdle == moon = NotComputed /\ moonPrev = NotComputed

SunIdle ==
  /\ lat = NotComputed /\ lng = NotComputed
  /\ cosH0 = NotComputed /\ sun = NotComputed

RokuyoIdle == rokuyo = NotComputed /\ rokuyoPrev = NotComputed

CallIdle == argDate = NotComputed /\ call = NotComputed /\ first = NotComputed

SearchIdle ==
  /\ pc = NotComputed /\ jstToday = NotComputed /\ estimate = NotComputed
  /\ loopK = NotComputed /\ loopKK = NotComputed /\ nyK = NotComputed

PhaseIdle == sweepAt = NotComputed /\ shown = NotComputed

\* no view is open but those that follow the clock
NewMoonIdle ==
  /\ lunationK = NotComputed /\ jdeAt = NotComputed
  /\ jdeBefore = NotComputed

CivilIdle ==
  /\ civilFrom = NotComputed /\ civilTo = NotComputed
  /\ jdFrom = NotComputed /\ jdTo = NotComputed /\ jdUTC = NotComputed

WorkerIdle ==
  /\ request = NotComputed /\ upstreamUrl = NotComputed
  /\ resp = NotComputed /\ response = NotComputed

PreflightIdle ==
  /\ swPc = NotComputed /\ urls = NotComputed /\ results = NotComputed
  /\ cached = NotComputed /\ failed = NotComputed
  /\ cache = NotComputed /\ posted = NotComputed

ProxyIdle ==
  /\ proxyPc = NotComputed /\ proxyUrls = NotComputed
  /\ tried = NotComputed /\ settled = NotComputed

LaterIdle ==
  /\ PhaseIdle /\ NewMoonIdle /\ CivilIdle /\ WorkerIdle
  /\ PreflightIdle /\ ProxyIdle

\* no view that follows the clock is open
ClockIdle ==
  /\ now = NotComputed /\ prev = NotComputed /\ steps = NotComputed
  /\ JulianIdle /\ MoonIdle /\ SunIdle /\ RokuyoIdle /\ CallIdle
  /\ SearchIdle

(***************************************************************************)
(* Integer helpers                                                         *)
(***************************************************************************)
Abs(x) == IF x < 0 THEN -x ELSE x

Sgn(x) == IF x < 0 THEN -1 ELSE IF x > 0 THEN 1 ELSE 0

RECURSIVE FloorLog2(_)
\* floor(log2(n)) for n >= 1: the exponent of the binade of n
FloorLog2(n) == IF n < 2 THEN 0 ELSE 1 + FloorLog2(n \div 2)

\* one digit d (base 256) of the multiplier in the long division of
\* am * b by c: acc = <<q, r>> so far
MulDivDigit(acc, am, d, c) ==
  LET t == acc[2] * 256 + am * d
  IN  <<acc[1] * 256 + (t \div c), t % c>>

\* <<q, r>> with a * b = q * c + r and 0 <= r < c, for a, b >= 0 and
\* 0 < c <= 2^21, without forming the product a * b
MulDivMod(a, b, c) ==
  LET am == a % c
      s3 == MulDivDigit(<<0, 0>>, am, b \div 16777216, c)
      s2 == MulDivDigit(s3, am, (b \div 65536) % 256, c)
      s1 == MulDivDigit(s2, am, (b \div 256) % 256, c)
      s0 == MulDivDigit(s1, am, b % 256, c)
  IN  <<(a \div c) * b + s0[1], s0[2]>>

(***************************************************************************)
(* Instants: Date values                                                   *)
(***************************************************************************)
MsPerDay == 86400000

\* the instant ms milliseconds after 00:00 UTC of day `day`, normalised
Instant(day, ms) == [day |-> day + (ms \div MsPerDay), ms |-> ms % MsPerDay]

AddMs(t, i) == Instant(t.day, t.ms + i)

Before(t1, t2) == t1.day < t2.day \/ (t1.day = t2.day /\ t1.ms < t2.ms)

(***************************************************************************)
(* toJulian(d) = d / 86400000 + 2440587.5 in IEEE double arithmetic.       *)
(*                                                                         *)
(* 86400000 = 2^10 * 84375, so ms = h * 84375 + l splits the day into 1024 *)
(* slots of 2^-10 day.  In the binade 2^e a double has ulp 2^(e-52), that  *)
(* is UlpsPerSlot(e) = 2^(42-e) ulps per slot.  day, the slot boundaries   *)
(* and 2440587.5 all lie on every grid used here, so only the position g   *)
(* inside the slot is rounded.                                             *)
(***************************************************************************)
SlotMs == 84375

SlotsPerDay == 1024

UlpsPerSlot(e) == 2 ^ (42 - e)

\* binade of |day + ms/86400000| (|value| >= 1)
QuotientBinade(d) ==
  IF d.day >= 1 THEN FloorLog2(d.day)
  ELSE IF d.ms = 0 THEN FloorLog2(-d.day)
  ELSE FloorLog2(-d.day - 1)

\* d / 86400000, correctly rounded: [day, h, g, e], value
\* day + h/1024 + g * 2^(e-52).  84375 is odd: the division has no ties.
DivideByMsPerDay(d) ==
  LET e  == QuotientBinade(d)
      qr == MulDivMod(d.ms % SlotMs, UlpsPerSlot(e), SlotMs)
      g  == qr[1] + (IF 2 * qr[2] > SlotMs THEN 1 ELSE 0)
  IN  [day |-> d.day, h |-> d.ms \div SlotMs, g |-> g, e |-> e]

\* round-half-even of g / r, r a power of two
RoundHalfEven(g, r) ==
  LET q == g \div r
      m == 2 * (g % r)
  IN  IF m > r \/ (m = r /\ q % 2 = 1) THEN q + 1 ELSE q

\* q + 2440587.5, correctly rounded: the double w + 1/2 + h/1024 + g ulps
\* of binade e, carried into (w, h, g) normal form
AddEpoch(q) ==
  LET w0    == q.day + 2440587
      up    == q.h >= SlotsPerDay \div 2
      exact == q.h = SlotsPerDay \div 2 /\ q.g = 0
      mag   == IF w0 >= 0 THEN w0 + (IF up THEN 1 ELSE 0)
               ELSE -w0 - (IF exact THEN 1 ELSE IF up THEN 2 ELSE 1)
      e     == FloorLog2(mag)
      g0    == IF e <= q.e THEN q.g * 2 ^ (q.e - e)
               ELSE RoundHalfEven(q.g, 2 ^ (e - q.e))
      h1    == q.h + (IF g0 = UlpsPerSlot(e) THEN 1 ELSE 0)
      g1    == IF g0 = UlpsPerSlot(e) THEN 0 ELSE g0
  IN  [w |-> w0 + (h1 \div SlotsPerDay), h |-> h1 % SlotsPerDay, g |-> g1, e |-> e]

\* the Julian date of the day of d, its time of day dropped
toJulian_floorDay(d) ==
  LET j == AddEpoch([day |-> d.day, h |-> 0, g |-> 0, e |-> QuotientBinade(d)])
  IN  [day |-> d.day, ms |-> d.ms, w |-> j.w, h |-> j.h, g |-> j.g, e |-> j.e]

\* the Julian date of instant d: (w, h, g, e) is the double returned, and
\* (day, ms) the exact value day + ms/86400000 + 2440587.5 it rounds
toJulian(d) ==
  LET j == AddEpoch(DivideByMsPerDay(d))
  IN  [day |-> d.day, ms |-> d.ms, w |-> j.w, h |-> j.h, g |-> j.g, e |-> j.e]

\* a < b on two doubles returned by toJulian
JulianLess(a, b) ==
  LET ga == a.g * (IF a.e > b.e THEN 2 ^ (a.e - b.e) ELSE 1)
      gb == b.g * (IF b.e > a.e THEN 2 ^ (b.e - a.e) ELSE 1)
  IN  \/ a.w < b.w
      \/ a.w = b.w /\ a.h < b.h
      \/ a.w = b.w /\ a.h = b.h /\ ga < gb

(***************************************************************************)
(* Exact durations: [d, s, u] is d days + s seconds + u microseconds,      *)
(* 0 <= s < 86400, 0 <= u < 1000000.  The synodic month 29.53058868 days   *)
(* is the whole number of microseconds 2551442861952.                      *)
(***************************************************************************)
Dur(d, s, u) ==
  LET s1 == s + (u \div 1000000)
  IN  [d |-> d + (s1 \div 86400), s |-> s1 % 86400, u |-> u % 1000000]

DurAdd(a, b) == Dur(a.d + b.d, a.s + b.s, a.u + b.u)

DurSub(a, b) == Dur(a.d - b.d, a.s - b.s, a.u - b.u)

\* n * a, for |n| <= 2147
DurScale(n, a) == Dur(n * a.d, n * a.s, n * a.u)

DurLess(a, b) ==
  \/ a.d < b.d
  \/ a.d = b.d /\ a.s < b.s
  \/ a.d = b.d /\ a.s = b.s /\ a.u < b.u

DurLeq(a, b) == ~DurLess(b, a)

DurZero == Dur(0, 0, 0)

\* Math.floor(a / b) for a duration b of at least one day
DurFloorDiv(a, b) ==
  LET x  == a.d \div (b.d + 1)
      y  == (a.d + 1) \div b.d
      lo == (IF x < y THEN x ELSE y) - 1
      hi == (IF x < y THEN y ELSE x) + 1
  IN  CHOOSE q \in lo..hi :
        DurLeq(DurScale(q, b), a) /\ DurLess(a, DurScale(q + 1, b))

\* (a / b) | 0: the quotient truncated toward zero
DurTruncDiv(a, b) ==
  LET q == DurFloorDiv(a, b)
  IN  IF q < 0 /\ DurScale(q, b) # a THEN q + 1 ELSE q

\* Math.round(x) = floor(x + 1/2) of the ratio x = a / b
DurRoundDiv(a, b) == DurFloorDiv(DurAdd(DurScale(2, a), b), DurScale(2, b))

\* a % b of JavaScript on integers: the sign of the dividend
JsRem(a, b) == IF a >= 0 THEN a % b ELSE -((-a) % b)

(***************************************************************************)
(* moonPhase                                                               *)
(***************************************************************************)
\* the synodic month cut to whole seconds
SynodicMonth_rounded == Dur(29, 45842, 0)

\* 29.53058868 days = 29 d 45842.861952 s
SynodicMonth == Dur(29, 45842, 861952)

\* 2451549.5 - 2440587.5: the reference new moon, in days since 1970-01-01
MoonEpochDay == 10962

\* array[idx]: the element at a 0-based index, undefined outside the array
Undefined == "undefined"

At(array, idx) ==
  IF idx \in 0..(Len(array) - 1) THEN array[idx + 1] ELSE Undefined

emojis ==
  << "U+1F311", "U+1F312", "U+1F313", "U+1F314", "U+1F315",
     "U+1F316", "U+1F317", "U+1F318", "U+1F311" >>

\* the names with the last entry repeating the one before it
names_noReturn ==
  << "shingetsu", "mikazuki", "jougen", "juusanya", "mangetsu",
     "izayoi", "kagen", "ariake", "ariake" >>

names ==
  << "shingetsu", "mikazuki", "jougen", "juusanya", "mangetsu",
     "izayoi", "kagen", "ariake", "shingetsu" >>

\* jd - 2451545.0 (the epoch J2000.0) as a duration
SinceMoonEpoch_j2000(j) ==
  Dur(j.day - MoonEpochDay + 4, (j.ms \div 1000) + 43200,
      (j.ms % 1000) * 1000)

\* jd - 2451549.5 as a duration
SinceMoonEpoch(j) ==
  Dur(j.day - MoonEpochDay, j.ms \div 1000, (j.ms % 1000) * 1000)

\* Number.prototype.toFixed(1) of a number of days: the decimal string
\* "w.t" as its digits <<w, t>> (round half up), and "-w.t" as
\* <<"-", w, t>>
toFixed1(a) ==
  LET n == DurRoundDiv(DurScale(10, a), Dur(1, 0, 0))
      m == -DurRoundDiv(DurScale(-10, a), Dur(1, 0, 0))
  IN  IF DurLess(a, DurZero) /\ m < 0
        THEN <<"-", (-m) \div 10, (-m) % 10>>
        ELSE <<n \div 10, n % 10>>

\* the age with the cycle count truncated toward zero instead of floored
MoonAge_truncated(date) ==
  LET elapsed == SinceMoonEpoch(toJulian(date))
      whole   == DurTruncDiv(elapsed, SynodicMonth)
  IN  DurSub(elapsed, DurScale(whole, SynodicMonth))

\* the age in days, cycle - Math.floor(cycle) scaled back by the period
MoonAge(date) ==
  LET elapsed == SinceMoonEpoch(toJulian(date))
      whole   == DurFloorDiv(elapsed, SynodicMonth)
  IN  DurSub(elapsed, DurScale(whole, SynodicMonth))

\* the index with Math.floor in place of Math.round
PhaseIndex_floor(pct) == JsRem(DurFloorDiv(DurScale(8, pct.num), pct.den), 9)

\* Math.round(pct * 8) % 9, for pct = num / den
PhaseIndex(pct) == JsRem(DurRoundDiv(DurScale(8, pct.num), pct.den), 9)

\* { age: age.toFixed(1), emoji, name, pct }; pct is the exact ratio
\* num / den of two durations
moonPhase(date) ==
  LET age == MoonAge(date)
      pct == [num |-> age, den |-> SynodicMonth]
      idx == PhaseIndex(pct)
  IN  [age |-> toFixed1(age), emoji |-> At(emojis, idx),
       name |-> At(names, idx), pct |-> pct]

(***************************************************************************)
(* lunarJpName                                                             *)
(***************************************************************************)
\* the table names of lunarJpName, keys 0 .. 29
jpNames ==
  <<"saku", "1-nichizuki", "2-nichizuki", "3-nichizuki", "4-nichizuki",
    "5-nichizuki", "6-nichizuki", "tanabatazuki", "8-nichizuki",
    "9-nichizuki", "10-nichizuki", "11-nichizuki", "12-nichizuki", "13-ya",
    "14-nichizuki", "15-ya", "16-ya", "tachimachizuki", "imachizuki",
    "nemachizuki", "fukemachizuki", "21-ya", "22-ya", "23-ya", "24-ya",
    "25-ya", "26-ya", "27-ya", "28-ya", "29-ya">>

\* Math.round(parseFloat(age)) of the digits toFixed1 returns (three
\* entries when the first is the sign): halves round toward +Infinity
RoundOfAge(age) ==
  IF Len(age) = 3
    THEN IF age[3] <= 5 THEN -age[2] ELSE -(age[2] + 1)
    ELSE IF age[2] >= 5 THEN age[1] + 1 ELSE age[1]

\* `${n}日月`: the name generated for a key the table does not hold
GeneratedName(n) == ToString(n) \o "-nichizuki"

\* names[n] ?? `${n}日月`
NameOrGenerated(n) ==
  IF At(jpNames, n) = Undefined THEN GeneratedName(n) ELSE At(jpNames, n)

\* lunarJpName with Math.floor in place of Math.round
lunarJpName_floor(age) ==
  NameOrGenerated(IF Len(age) = 2 THEN age[1]
                  ELSE IF age[3] = 0 THEN -age[2] ELSE -(age[2] + 1))

lunarJpName(age) == NameOrGenerated(RoundOfAge(age))

(***************************************************************************)
(* The clock of the Julian-date readout                                  *)
(***************************************************************************)
\* days (since 1970-01-01) on which the modelled clock windows open
JulianDays ==
  { -70000000, -68000000, -67108865, -60000000, -5000, 12000, 16383, 20000,
    30000000, 64000000, 64668276, 65000000, 99999998 }

\* milliseconds of the day at which the windows open
WindowOpenMs == {0, 43199990, 86399990}

\* length of a clock window, largest clock step, in ms
WindowMs == 12

MaxStepMs == 3

WindowStart(t) ==
  { s \in { Instant(d, m) : d \in JulianDays, m \in WindowOpenMs } :
      /\ ~Before(t, s)
      /\ ~Before(AddMs(s, WindowMs), t) }

InWindowOf(t, t2) == \E s \in WindowStart(t) : s \in WindowStart(t2)

InitJulian ==
  /\ now \in { Instant(d, m) : d \in JulianDays, m \in WindowOpenMs }
  /\ prev = now
  /\ jd = toJulian(now)
  /\ jdPrev = jd
  /\ steps = 0
  /\ MoonIdle /\ SunIdle /\ RokuyoIdle /\ CallIdle /\ SearchIdle
  /\ LaterIdle

\* setNow(new Date()): the clock has advanced by i ms
Tick(i) ==
  /\ InWindowOf(now, AddMs(now, i))
  /\ prev' = now
  /\ now' = AddMs(now, i)
  /\ jdPrev' = jd
  /\ jd' = toJulian(now')
  /\ UNCHANGED <<steps, moonVars, sunVars, rokuyoVars, callVars, searchVars>>
  /\ UNCHANGED laterVars

\* setNow(new Date()) after the wall clock was set back by i ms
ClockSetBack(i) ==
  /\ InWindowOf(now, AddMs(now, -i))
  /\ prev' = now
  /\ now' = AddMs(now, -i)
  /\ jdPrev' = jd
  /\ jd' = toJulian(now')
  /\ UNCHANGED <<steps, moonVars, sunVars, rokuyoVars, callVars, searchVars>>
  /\ UNCHANGED laterVars

NextJulian ==
  \/ \E i \in 1..MaxStepMs : Tick(i)
  \/ \E i \in 1..MaxStepMs : ClockSetBack(i)

SpecJulian == InitJulian /\ [][NextJulian]_vars

(***************************************************************************)
(* C7                                                                      *)
(***************************************************************************)
\* -2^26 days <= t and toJulian(t) <= 2^26 days, that is
\* -5798205849600000 <= t <= 5587339089600000 ms: below 2^26 an ulp of
\* both the quotient and the sum is shorter than one millisecond
StrictRange(t) ==
  /\ t.day >= -67108864
  /\ \/ t.day < 64668276
     \/ t.day = 64668276 /\ t.ms <= 43200000

\* C7 as stated: toJulian is strictly monotonic on all millisecond
\* timestamps, t1 < t2 iff toJulian(t1) < toJulian(t2)
C7_StrictEverywhere ==
  /\ Before(prev, now) => JulianLess(jdPrev, jd)
  /\ JulianLess(jdPrev, jd) => Before(prev, now)

\* C7 amended: toJulian never decreases, toJulian(t2) > toJulian(t1) only
\* if t2 > t1, and it is strictly increasing on the timestamps of
\* StrictRange (negative ones included)
C7_MonotonicStrictInRange ==
  /\ Before(prev, now) => ~JulianLess(jd, jdPrev)
  /\ JulianLess(jdPrev, jd) => Before(prev, now)
  /\ Before(prev, now) /\ StrictRange(prev) /\ StrictRange(now)
       => JulianLess(jdPrev, jd)

\* two timestamps before the Unix epoch, one millisecond apart, with
\* distinct Julian dates
C7_Witness ==
  /\ now.day < 0
  /\ StrictRange(prev)
  /\ now = AddMs(prev, 1)
  /\ JulianLess(jdPrev, jd)

(***************************************************************************)
(* The clock of the moon panel                                             *)
(***************************************************************************)
\* days (since 1970-01-01) and milliseconds of the day at which the moon
\* panel is opened: 10962 is the reference new moon, 19823 01:32:03.765
\* lies within a millisecond after a phase boundary, 18:13:59.999 is a
\* millisecond before the time of the reference new moon
MoonDays == {7000, 10961, 10962, 19823, 20000}

MoonOpenMs == {0, 1923765, 65639999, 86399995}

\* clock updates followed after the panel is opened
MaxUpdates == 3

\* new Date(t.getTime() + 29.53058868 * 86400000): the sum
\* t + 2551442861.952 ms, clipped to a whole millisecond toward zero
AddSynodicMonth(t) ==
  LET sum == AddMs(Instant(t.day + 29, t.ms), 45842861)
  IN  IF sum.day < 0 THEN AddMs(sum, 1) ELSE sum

InitMoon ==
  /\ now \in { Instant(d, m) : d \in MoonDays, m \in MoonOpenMs }
  /\ prev = now
  /\ steps = 0
  /\ moon = moonPhase(now)
  /\ moonPrev = moon
  /\ JulianIdle /\ SunIdle /\ RokuyoIdle /\ CallIdle /\ SearchIdle
  /\ LaterIdle

MoonSetNow(t) ==
  /\ steps < MaxUpdates
  /\ steps' = steps + 1
  /\ prev' = now
  /\ now' = t
  /\ moonPrev' = moon
  /\ moon' = moonPhase(t)
  /\ UNCHANGED <<julianVars, sunVars, rokuyoVars, callVars, searchVars>>
  /\ UNCHANGED laterVars

\* setNow(new Date()), i ms later
MoonTick(i) == MoonSetNow(AddMs(now, i))

\* new Date(now.getTime() + 86400000): the next day of the week strip
MoonNextDay == MoonSetNow(AddMs(now, MsPerDay))

\* the clock one synodic month later
MoonNextLunation == MoonSetNow(AddSynodicMonth(now))

NextMoon ==
  \/ \E i \in 1..MaxStepMs : MoonTick(i)
  \/ MoonNextDay
  \/ MoonNextLunation

SpecMoon == InitMoon /\ [][NextMoon]_vars

(***************************************************************************)
(* C8                                                                      *)
(***************************************************************************)
\* parseFloat of the string toFixed1 returns, as a duration
ParsedAge(a) == Dur(0, (10 * a[1] + a[2]) * 8640, 0)

\* C8 as stated: pct is in [0, 1), the age returned is in [0, 29.53058868)
\* and pct = age / 29.53058868
C8_FractionIsReturnedAge ==
  /\ DurLeq(DurZero, moon.pct.num)
  /\ DurLess(moon.pct.num, moon.pct.den)
  /\ DurLeq(DurZero, ParsedAge(moon.age))
  /\ DurLess(ParsedAge(moon.age), SynodicMonth)
  /\ moon.pct.den = SynodicMonth
  /\ moon.pct.num = ParsedAge(moon.age)

\* C8 amended: pct is in [0, 1); the age returned is pct * 29.53058868
\* rounded to one decimal, so it is one of 0.0 .. 29.5, below 29.53058868
\* and within 0.05 day of pct * 29.53058868
C8_FractionAndRoundedAge ==
  /\ DurLeq(DurZero, moon.pct.num)
  /\ DurLess(moon.pct.num, moon.pct.den)
  /\ moon.pct.den = SynodicMonth
  /\ moon.age[1] \in 0..29 /\ moon.age[2] \in 0..9
  /\ DurLess(ParsedAge(moon.age), SynodicMonth)
  /\ DurLeq(DurSub(moon.pct.num, ParsedAge(moon.age)), Dur(0, 4320, 0))
  /\ DurLeq(DurSub(ParsedAge(moon.age), moon.pct.num), Dur(0, 4320, 0))

\* an instant before the reference new moon, in the last tenth of the cycle
C8_Witness ==
  /\ steps > 0
  /\ Before(now, Instant(MoonEpochDay, 0))
  /\ moon.age = <<29, 5>>
  /\ DurLess(moon.pct.num, moon.pct.den)

(***************************************************************************)
(* C9                                                                      *)
(***************************************************************************)
\* the boundary (2k+1)/16 of the cycle lies in (a, b]
BoundaryBetween(a, b) ==
  \E k \in 0..7 :
    /\ DurLess(DurScale(16, a), DurScale(2 * k + 1, SynodicMonth))
    /\ DurLeq(DurScale(2 * k + 1, SynodicMonth), DurScale(16, b))

\* the ages a and b are less than 1 ms apart on the cycle
WithinOneMs(a, b) ==
  LET diff == DurSub(a, b)
      tol  == Dur(0, 0, 1000)
  IN  \/ DurLess(DurSub(DurZero, tol), diff) /\ DurLess(diff, tol)
      \/ DurLess(DurSub(SynodicMonth, tol), diff)
      \/ DurLess(diff, DurSub(tol, SynodicMonth))

NearestEighth(pct, j) ==
  /\ DurLeq(DurScale(2 * j - 1, pct.den), DurScale(16, pct.num))
  /\ DurLess(DurScale(16, pct.num), DurScale(2 * j + 1, pct.den))

\* C10: the name and emoji returned are the table entries at
\* round(pct * 8) mod 9, an index in 0..8, and entry 8 equals entry 0
C10_PhaseIndexInTable ==
  /\ \E j \in 0..8 :
       /\ NearestEighth(moon.pct, j)
       /\ moon.name = names[(j % 9) + 1]
       /\ moon.emoji = emojis[(j % 9) + 1]
  /\ Len(names) = 9 /\ Len(emojis) = 9
  /\ names[9] = names[1] /\ emojis[9] = emojis[1]

\* the fraction rounds to index 8 and the new moon is shown
C10_Witness ==
  /\ steps > 0
  /\ NearestEighth(moon.pct, 8)
  /\ moon.name = names[1]
  /\ moon.emoji = emojis[1]


(***************************************************************************)
(* C13                                                                     *)
(***************************************************************************)
\* new Date("2000-01-06T18:14:00Z"), the new moon the epoch is named after
ReferenceNewMoon == Instant(MoonEpochDay, 65640000)

\* C13: at the reference new moon the age returned is less than 1 day, or
\* less than 1 day short of the period
C13_AgeNearZeroAtReference ==
  now = ReferenceNewMoon =>
    \/ DurLess(ParsedAge(moon.age), Dur(1, 0, 0))
    \/ DurLess(DurSub(SynodicMonth, ParsedAge(moon.age)), Dur(1, 0, 0))

\* the clock has reached the reference new moon: the age shown is 0.8
C13_Witness ==
  /\ steps > 0
  /\ now = ReferenceNewMoon
  /\ moon.age = <<0, 8>>

(***************************************************************************)
(* C15                                                                     *)
(***************************************************************************)
\* the names the table of lunarJpName holds
TableNames == { jpNames[i] : i \in 1..Len(jpNames) }

\* C15 as stated: the age moonPhase returns rounds to one of 0 .. 29 and
\* lunarJpName returns an entry of the table
C15_AlwaysTableName ==
  /\ RoundOfAge(moon.age) \in 0..29
  /\ lunarJpName(moon.age) \in TableNames

\* C15 amended: the age moonPhase returns rounds to one of 0 .. 30;
\* lunarJpName returns the table's entry for it, except for the age "29.5",
\* which rounds to 30 and gets the generated name
C15_TableNameBelowLastTwentieth ==
  /\ RoundOfAge(moon.age) \in 0..30
  /\ moon.age # <<29, 5>> =>
       /\ lunarJpName(moon.age) \in TableNames
       /\ lunarJpName(moon.age) = jpNames[RoundOfAge(moon.age) + 1]
  /\ moon.age = <<29, 5>> => lunarJpName(moon.age) = GeneratedName(30)

\* the age shown is 29.5 and the name is the generated one
C15_Witness ==
  /\ steps > 0
  /\ moon.age = <<29, 5>>
  /\ lunarJpName(moon.age) \notin TableNames

(***************************************************************************)
(* Trigonometry in fixed point: a real x is the integer x * Scale,         *)
(* truncated toward zero; an angle in degrees is an integer count of       *)
(* microdegrees.  The steps are functions, applied with [ ].               *)
(***************************************************************************)
Scale == 1048576

\* Math.PI and Math.PI / 2, times Scale
Pi == 3294199

HalfPi == 1647099

\* a * b / c truncated toward zero (0 < c <= 2^21)
MulDiv ==
  [a \in Int, b \in Int, c \in Int |->
     Sgn(a) * Sgn(b) * MulDivMod(Abs(a), Abs(b), c)[1]]

\* the product of two fixed-point reals below 4, truncated toward zero:
\* a = ah * 2^11 + al, b = bh * 2^11 + bl
Mul ==
  [a \in Int, b \in Int |->
     LET ah == Abs(a) \div 2048
         al == Abs(a) % 2048
         bh == Abs(b) \div 2048
         bl == Abs(b) % 2048
     IN  Sgn(a) * Sgn(b)
           * (4 * ah * bh
                + ((ah * bl + al * bh + ((al * bl) \div 2048)) \div 512))]

\* deg * Math.PI / 180: microdegrees to radians (24026 / 1312817 is the
\* convergent of 2^20 * pi / 180000000)
Rad == [u \in Int |-> MulDiv[u, 24026, 1312817]]

\* rad * 180 / Math.PI: radians to microdegrees
Deg == [r \in Int |-> MulDiv[r, 101885604, 1864619]]

\* the sine series on [0, pi/2], to the term x^13 / 13!
SinSeries ==
  [x \in Int |->
     LET x2 == Mul[x, x]
         t6 == Scale - (x2 \div 156)
         t5 == Scale - (Mul[x2, t6] \div 110)
         t4 == Scale - (Mul[x2, t5] \div 72)
         t3 == Scale - (Mul[x2, t4] \div 42)
         t2 == Scale - (Mul[x2, t3] \div 20)
         t1 == Scale - (Mul[x2, t2] \div 6)
     IN  Mul[x, t1]]

\* Math.sin: the argument folded into [0, pi/2]
Sin ==
  [x \in Int |->
     LET r == x % (2 * Pi)
         h == IF r > Pi THEN r - Pi ELSE r
         q == IF h > HalfPi THEN Pi - h ELSE h
     IN  (IF r > Pi THEN -1 ELSE 1) * SinSeries[q]]

\* Math.cos
Cos == [x \in Int |-> Sin[x + HalfPi]]

RECURSIVE SqrtNewton(_, _, _)
\* integer square root of x * Scale by Newton's iteration from r
SqrtNewton(x, r, fuel) ==
  LET r2 == (r + MulDivMod(x, Scale, r)[1]) \div 2
  IN  IF fuel = 0 \/ r2 >= r THEN r ELSE SqrtNewton(x, r2, fuel - 1)

\* Math.sqrt of a fixed-point real in [0, 1]
Sqrt == [x \in Int |-> IF x <= 0 THEN 0 ELSE SqrtNewton(x, Scale, 24)]

\* one Newton step of asin: y + (u - sin y) / cos y
AsinStep == [u \in Int, y \in Int |-> y + MulDiv[u - Sin[y], Scale, Cos[y]]]

\* Math.asin on [0, 0.75]
AsinSmall ==
  [u \in Int |-> AsinStep[u, AsinStep[u, u + (Mul[u, Mul[u, u]] \div 6)]]]

\* Math.asin for |u| <= 0.75
Asin == [u \in Int |-> Sgn(u) * AsinSmall[Abs(u)]]

\* Math.acos on [-1, 1], by the half-angle formula
Acos ==
  [c \in Int |->
     LET a == 2 * AsinSmall[Sqrt[(Scale - Abs(c)) \div 2]]
     IN  IF c >= 0 THEN a ELSE Pi - a]

(***************************************************************************)
(* sunriseSunset(date, lat, lng): lat and lng in 1/10000 degree            *)
(***************************************************************************)
Null == [null |-> TRUE]

\* n = Math.floor(JD - 2451545.0 + 0.0008): JD 2451545.0 is day 10957 at
\* 12:00, 0.0008 day is 69120 ms; at 11:58:50.880 exactly the double sum
\* falls just short of the integer
SunDayNumber(date) ==
  date.day - 10958 + (IF date.ms > 43130880 THEN 1 ELSE 0)

\* M = (357.5291 + 0.98560028 * (n - lng / 360)) % 360, in microdegrees
\* (0.98560028 n = n - 0.01439972 n)
SunMeanAnomaly ==
  [n \in Int, lngE4 \in Int |->
     JsRem(357529100 + JsRem(n, 360) * 1000000 - 14399 * n
             - MulDiv[72, n, 100] - MulDiv[lngE4, 273778, 1000000],
           360000000)]

\* C = 1.9148 sin(Mr) + 0.02 sin(2 Mr) + 0.0003 sin(3 Mr), in microdegrees
SunEquationOfCenter ==
  [Mr \in Int |->
     MulDiv[1914800, Sin[Mr], Scale] + MulDiv[20000, Sin[2 * Mr], Scale]
       + MulDiv[300, Sin[3 * Mr], Scale]]

\* (M + C + 180 + 102.9372) % 360, in microdegrees
SunLongitudeDeg ==
  [sum \in Int |-> JsRem(sum + 180000000 + 102937200, 360000000)]

\* lam = ((M + C + 180 + 102.9372) % 360) * Math.PI / 180
SunEclipticLongitude ==
  [M \in Int |-> Rad[SunLongitudeDeg[M + SunEquationOfCenter[Rad[M]]]]]

\* an instant i ms after the instant t
Shift == [t \in [day : Int, ms : Int], i \in Int |-> AddMs(t, i)]

\* Jtransit = 2451545.0 + Jstar + 0.0053 sin(Mr) - 0.0069 sin(2 lam), as an
\* instant (lng / 360 day = 24 ms per 1/10000 degree)
SunTransit ==
  [n \in Int, lngE4 \in Int, M \in Int, lam \in Int |->
     Shift[Instant(10957 + n, 43200000),
           MulDiv[457920, Sin[Rad[M]], Scale]
             - MulDiv[596160, Sin[2 * lam], Scale] - 24 * lngE4]]

\* sinDec = Math.sin(lam) * Math.sin(23.4397 * Math.PI / 180)
SunSinDec == [lam \in Int |-> Mul[Sin[lam], Sin[Rad[23439700]]]]

\* num / den; a quotient beyond +-2 is kept as +-2
SunQuotient ==
  [num \in Int, den \in Int |->
     IF den <= 0 \/ Abs(num) >= 2 * den
       THEN 2 * Scale * Sgn(num)
       ELSE MulDiv[num, Scale, den]]

\* cosH0 with sin(lat) sinDec added instead of subtracted
SunCosH0Of_plus ==
  [sinDec \in Int, latE4 \in Int |->
     SunQuotient[Sin[Rad[-833300]] + Mul[Sin[Rad[100 * latE4]], sinDec],
                 Mul[Cos[Rad[100 * latE4]], Cos[Asin[sinDec]]]]]

\* cosH0 = (sin(-0.8333 deg) - sin(lat) sinDec) / (cos(lat) cosDec), with
\* cosDec = Math.cos(Math.asin(sinDec))
SunCosH0Of ==
  [sinDec \in Int, latE4 \in Int |->
     SunQuotient[Sin[Rad[-833300]] - Mul[Sin[Rad[100 * latE4]], sinDec],
                 Mul[Cos[Rad[100 * latE4]], Cos[Asin[sinDec]]]]]

\* the local cosH0 of sunriseSunset(date, lat, lng)
SunCosH0(date, latE4, lngE4) ==
  SunCosH0Of[
    SunSinDec[SunEclipticLongitude[SunMeanAnomaly[SunDayNumber(date), lngE4]]],
    latE4]

\* toUTC(jd): the digits of "HH:MM"
toUTC(t) ==
  LET h == t.ms \div 3600000
      m == (t.ms \div 60000) % 60
  IN  <<h \div 10, h % 10, m \div 10, m % 10>>

\* Jrise and Jset with the signs of H0 / 360 exchanged
SunWindow_swapped ==
  [Jtr \in [day : Int, ms : Int], half \in Int |->
     [Jrise |-> AddMs(Jtr, half), Jtransit |-> Jtr, Jset |-> AddMs(Jtr, -half)]]

\* Jrise = Jtransit - H0 / 360 and Jset = Jtransit + H0 / 360, H0 / 360 day
\* being half ms
SunWindow ==
  [Jtr \in [day : Int, ms : Int], half \in Int |->
     [Jrise |-> AddMs(Jtr, -half), Jtransit |-> Jtr, Jset |-> AddMs(Jtr, half)]]

\* Jtransit of day number n at longitude lng, from the mean anomaly M
SunTransitOf ==
  [n \in Int, lngE4 \in Int, M \in Int |->
     SunTransit[n, lngE4, M, SunEclipticLongitude[M]]]

\* Jrise, Jtransit and Jset for a cosH0 in [-1, 1]
SunTimes(date, lngE4, c) ==
  SunWindow[
    SunTransitOf[SunDayNumber(date), lngE4,
                 SunMeanAnomaly[SunDayNumber(date), lngE4]],
    (6 * Deg[Acos[c]]) \div 25]

\* { rise: toUTC(Jrise), set: toUTC(Jset) }
SunResult ==
  [J \in [Jrise : [day : Int, ms : Int], Jtransit : [day : Int, ms : Int],
          Jset : [day : Int, ms : Int]] |->
     [rise |-> toUTC(J.Jrise), set |-> toUTC(J.Jset)]]

\* sunriseSunset with the polar day reported as a sunrise without a sunset
sunriseSunset_riseOnly(date, latE4, lngE4) ==
  LET c == SunCosH0(date, latE4, lngE4)
  IN  IF c > Scale THEN Null
      ELSE IF c < -Scale THEN [rise |-> <<0, 0, 0, 0>>]
      ELSE SunResult[SunTimes(date, lngE4, c)]

\* sunriseSunset with cosH0 clamped to [-1, 1] instead of returning null
sunriseSunset_clamped(date, latE4, lngE4) ==
  LET c0 == SunCosH0(date, latE4, lngE4)
  IN  SunResult[SunTimes(date, lngE4,
        IF c0 > Scale THEN Scale ELSE IF c0 < -Scale THEN -Scale ELSE c0)]

sunriseSunset(date, latE4, lngE4) ==
  LET c == SunCosH0(date, latE4, lngE4)
  IN  IF c < -Scale \/ c > Scale
        THEN Null
        ELSE SunResult[SunTimes(date, lngE4, c)]

(***************************************************************************)
(* getRokuyo(date).  A civil date is the record [y, m, d].                 *)
(***************************************************************************)
\* getUTCFullYear, getUTCMonth() + 1 and getUTCDate of the Date whose day
\* number (days since 1970-01-01) is dayNumber
CivilFromDays ==
  [dayNumber \in Int |->
     LET z   == dayNumber + 719468
         era == z \div 146097
         doe == z % 146097
         yoe == (doe - (doe \div 1460) + (doe \div 36524) - (doe \div 146096))
                  \div 365
         doy == doe - (365 * yoe + (yoe \div 4) - (yoe \div 100))
         mp  == (5 * doy + 2) \div 153
         mm  == IF mp < 10 THEN mp + 3 ELSE mp - 9
     IN  [y |-> yoe + 400 * era + (IF mm <= 2 THEN 1 ELSE 0),
          m |-> mm,
          d |-> doy - ((153 * mp + 2) \div 5) + 1]]

\* the UTC date: the getters read on date itself
JstDate_utc(date) == CivilFromDays[date.day]

\* the JST date of the wall clock: new Date(Date.now() + 9 * 3600000)
JstDate_wallClock(date) == CivilFromDays[AddMs(now, 32400000).day]

\* new Date(date.getTime() + 9 * 3600000) read with the UTC getters
JstDate(date) == CivilFromDays[AddMs(date, 32400000).day]

\* JD without the Gregorian correction B of lines 280 - 281
JD_noCentury(y, m, d) ==
  LET yy == IF m <= 2 THEN y - 1 ELSE y
      mm == IF m <= 2 THEN m + 12 ELSE m
  IN  2 * (((36525 * (yy + 4716)) \div 100)
           + ((306001 * (mm + 1)) \div 10000) + d) - 3049

\* JD(y, m, d), doubled: Julian dates of civil midnights end in .5
JD(y, m, d) ==
  LET yy == IF m <= 2 THEN y - 1 ELSE y
      mm == IF m <= 2 THEN m + 12 ELSE m
      A  == yy \div 100
      B  == 2 - A + (A \div 4)
  IN  2 * (((36525 * (yy + 4716)) \div 100)
           + ((306001 * (mm + 1)) \div 10000) + d + B) - 3049

\* JD(c.y, c.m, c.d)
JDof == [c \in [y : Int, m : Int, d : Int] |-> JD(c.y, c.m, c.d)]

\* an angle a0 + (whole + frac / 10^8) * k degrees, in microdegrees within
\* one turn of it: a0 in microdegrees, whole in degrees, frac in 10^-8 deg
Argument(a0, whole, frac, k) ==
  a0 + ((whole * k) % 360) * 1000000 + (frac \div 100) * k
    + (((frac % 100) * k) \div 100)

\* the periodic terms of newMoonJDE(k), in milliseconds: -0.40720 sin(Mp)
\* + 0.17241 sin(M) + 0.01608 sin(2 Mp) + 0.01039 sin(2 F)
\* + 0.00739 sin(Mp - M) days
NewMoonCorrection ==
  [k \in Int |->
     LET M  == Rad[Argument(2553400, 29, 10535670, k)]
         Mp == Rad[Argument(201564300, 385, 81693528, k)]
         F  == Rad[Argument(160710800, 390, 67050284, k)]
     IN  MulDiv[14896224, Sin[M], Scale]
           - MulDiv[35182080, Sin[Mp], Scale]
           + MulDiv[1389312, Sin[2 * Mp], Scale]
           + MulDiv[897696, Sin[2 * F], Scale]
           + MulDiv[638496, Sin[Mp - M], Scale]]

\* 2451550.09766 + 29.530588861 k + 0.00015437 T^2 - 0.000000150 T^3, as
\* the duration since 1970-01-01T00:00Z (JDE - 2440587.5): 2451550.09766
\* is day 10962 + 51637.824 s, 29.530588861 d is 29 d 45842.8775904 s,
\* T = k / 1236.85; in microseconds
NewMoonMean ==
  [k \in Int |->
     DurAdd(Dur(10962, 51637, 824000),
       DurAdd(DurScale(k, Dur(29, 45842, 877590)),
              Dur(0, 0, ((4 * k) \div 10) + MulDiv[k * k, 871851, 100000]
                          - MulDiv[MulDiv[k * k * k, 68494, 100000],
                                   1, 100000])))]

\* a duration and corr seconds
DurPlusMs_seconds ==
  [a \in [d : Int, s : Int, u : Int], corr \in Int |->
     DurAdd(a, Dur(0, corr, 0))]

\* a duration and corr milliseconds
DurPlusMs ==
  [a \in [d : Int, s : Int, u : Int], corr \in Int |->
     DurAdd(a, Dur(0, corr \div 1000, (corr % 1000) * 1000))]

\* newMoonJDE(k), as the duration since 1970-01-01T00:00Z
newMoonJDE == [k \in Int |-> DurPlusMs[NewMoonMean[k], NewMoonCorrection[k]]]

\* the day number of new Date(ms + 9 * 3600000)
JstDayOf ==
  [jde \in [d : Int, s : Int, u : Int] |->
     jde.d + ((jde.s + 32400) \div 86400)]

\* nmJST(k): the JST civil date of new moon k
nmJST(k) == CivilFromDays[JstDayOf[newMoonJDE[k]]]

\* let k = Math.floor((y + (m - 1) / 12 - 2000) * 12.3685) + 1
LunationEstimate(y, m) ==
  (((12 * (y - 2000) + m - 1) * 123685) \div 120000) + 1

RECURSIVE LunationDown(_, _)
\* while (JD(nmJST(k)) > jdToday) k--
LunationDown(k, jdToday) ==
  IF JDof[nmJST(k)] > jdToday THEN LunationDown(k - 1, jdToday) ELSE k

RECURSIVE LunationUp(_, _)
\* while (JD(nmJST(k + 1)) <= jdToday) k++
LunationUp(k, jdToday) ==
  IF JDof[nmJST(k + 1)] <= jdToday THEN LunationUp(k + 1, jdToday) ELSE k

\* the lunation the second loop settles on, from the k of the first
LunationFrom == [k \in Int, jdToday \in Int |-> LunationUp(k, jdToday)]

\* the lunation k the two loops settle on for the JST date c
Lunation(c) ==
  LunationFrom[LunationDown(LunationEstimate(c.y, c.m), JDof[c]), JDof[c]]

\* Math.round(x) of x = x2 / 2
RoundHalves(x2) == (x2 + 1) \div 2

\* lunarDay counted from 0
LunarDay_zeroBased(jdToday, cur) == RoundHalves(jdToday - JDof[cur])

\* lunarDay: days elapsed since the new moon's date, counted from 1
LunarDay(jdToday, cur) == RoundHalves(jdToday - JDof[cur]) + 1

RECURSIVE NewYearUp(_, _)
\* while (JD(nmJST(kk)) <= usui) kk++
NewYearUp(kk, usui) ==
  IF JDof[nmJST(kk)] <= usui THEN NewYearUp(kk + 1, usui) ELSE kk

\* getNewYearK(yr): the last new moon on or before 19 February
getNewYearK(yr) ==
  NewYearUp((((8 * (yr - 2000) + 1) * 123685) \div 80000) + 1, JD(yr, 2, 19))
    - 1

\* if (lunarMonth < 1) lunarMonth = 1
MonthClamp == [m \in Int |-> IF m < 1 THEN 1 ELSE m]

\* a month above 12 left as it is
MonthWrap_none == [m \in Int |-> m]

\* a month above 12 set to 12
MonthWrap_saturate == [m \in Int |-> IF m > 12 THEN 12 ELSE m]

\* if (lunarMonth > 12) lunarMonth -= 12
MonthWrap == [m \in Int |-> IF m > 12 THEN m - 12 ELSE m]

\* a month of 0 or less left as it is
MonthFallBack_none == [m \in Int, k \in Int, y \in Int |-> m]

\* if (lunarMonth <= 0) lunarMonth = k - getNewYearK(y - 1) + 1
MonthFallBack ==
  [m \in Int, k \in Int, y \in Int |->
     IF m <= 0 THEN k - getNewYearK(y - 1) + 1 ELSE m]

\* lunarMonth without the subtraction of 12
LunarMonth_noWrap(k, y) ==
  MonthClamp[MonthFallBack[k - getNewYearK(y) + 1, k, y]]

\* lunarMonth without the fall back to the previous year's new year
LunarMonth_noFallback(k, y) ==
  MonthClamp[MonthWrap[k - getNewYearK(y) + 1]]

\* lunarMonth of lunation k in the JST year y
LunarMonth(k, y) ==
  MonthClamp[MonthWrap[MonthFallBack[k - getNewYearK(y) + 1, k, y]]]

ROKUYO == <<"taian", "shakku", "sensho", "tomobiki", "senbu", "butsumetsu">>

ROKUYO_EN ==
  <<"Taian", "Shakku", "Sensho", "Tomobiki", "Senbu", "Butsumetsu">>

ROKUYO_DESC ==
  <<"great luck, all is well", "lucky at noon only", "lucky in the morning",
    "lucky morning and evening, unlucky midday", "lucky in the afternoon",
    "all unlucky, a day of restraint">>

\* idx from the day of the month alone
RokuyoIndex_dayOnly(lunarMonth, lunarDay) == JsRem(lunarDay, 6)

\* const idx = (lunarMonth + lunarDay) % 6
RokuyoIndex(lunarMonth, lunarDay) == JsRem(lunarMonth + lunarDay, 6)

\* the record returned for a lunar month and day
RokuyoRecord ==
  [lMon \in Int, lDay \in Int |->
     LET i == RokuyoIndex(lMon, lDay)
     IN  [name |-> At(ROKUYO, i), en |-> At(ROKUYO_EN, i),
          desc |-> At(ROKUYO_DESC, i),
          lunarMonth |-> lMon, lunarDay |-> lDay, idx |-> i]]

\* the record returned on the JST date today of lunation k
RokuyoOn ==
  [today \in [y : Int, m : Int, d : Int], k \in Int |->
     RokuyoRecord[LunarMonth(k, today.y), LunarDay(JDof[today], nmJST(k))]]

getRokuyo(date) == RokuyoOn[JstDate(date), Lunation(JstDate(date))]

(***************************************************************************)
(* The clock of the rokuyo panel and its 7-day strip                       *)
(***************************************************************************)
\* days (since 1970-01-01, UTC) on which the panel is opened: 25 Dec 1999,
\* 19 Jul 2025 (a year of 13 lunar months), 25 Dec 2025 and 17 Jan 2026;
\* the times of day: 00:00 UTC, 14:59:59.999 UTC = 23:59:59.999 JST, and
\* 23:59:59.999 UTC
RokuyoDays == {10950, 20288, 20447, 20470}

RokuyoOpenMs == {0, 53999999, 86399999}

\* days followed, and clock ticks among the first updates
MaxDays == 35

MaxTicks == 2

InitRokuyo ==
  /\ now \in { Instant(d, m) : d \in RokuyoDays, m \in RokuyoOpenMs }
  /\ prev = now
  /\ steps = 0
  /\ rokuyo = getRokuyo(now)
  /\ rokuyoPrev = rokuyo
  /\ JulianIdle /\ MoonIdle /\ SunIdle /\ CallIdle /\ SearchIdle
  /\ LaterIdle

RokuyoUpdate(t) ==
  /\ steps' = steps + 1
  /\ prev' = now
  /\ now' = t
  /\ rokuyoPrev' = rokuyo
  /\ rokuyo' = getRokuyo(t)
  /\ UNCHANGED <<julianVars, moonVars, sunVars, callVars, searchVars>>
  /\ UNCHANGED laterVars

\* setNow(new Date()), a millisecond later
RokuyoTick ==
  /\ steps < MaxTicks
  /\ RokuyoUpdate(AddMs(now, 1))

\* new Date(now.getTime() + 86400000): the next day of the strip
RokuyoNextDay ==
  /\ steps < MaxDays
  /\ RokuyoUpdate(AddMs(now, MsPerDay))

NextRokuyo == RokuyoTick \/ RokuyoNextDay

SpecRokuyo == InitRokuyo /\ [][NextRokuyo]_vars

(***************************************************************************)
(* C3                                                                      *)
(***************************************************************************)
\* C3: idx = (lunarMonth + lunarDay) mod 6 of the values returned, idx is
\* in 0..5, and name, en and desc are the entries at idx of the tables,
\* which list taian, shakku, sensho, tomobiki, senbu, butsumetsu in order
C3_IndexAndTables ==
  /\ rokuyo.idx = (rokuyo.lunarMonth + rokuyo.lunarDay) % 6
  /\ rokuyo.idx \in 0..5
  /\ rokuyo.name = ROKUYO[rokuyo.idx + 1]
  /\ rokuyo.en = ROKUYO_EN[rokuyo.idx + 1]
  /\ rokuyo.desc = ROKUYO_DESC[rokuyo.idx + 1]
  /\ Len(ROKUYO) = 6 /\ Len(ROKUYO_EN) = 6 /\ Len(ROKUYO_DESC) = 6
  /\ ROKUYO_EN[1] = "Taian" /\ ROKUYO_EN[2] = "Shakku"
  /\ ROKUYO_EN[3] = "Sensho" /\ ROKUYO_EN[4] = "Tomobiki"
  /\ ROKUYO_EN[5] = "Senbu" /\ ROKUYO_EN[6] = "Butsumetsu"

\* a butsumetsu in a lunar month other than the sixth and the twelfth
C3_Witness ==
  /\ steps > 0
  /\ rokuyo.idx = 5
  /\ rokuyo.lunarMonth % 6 # 0
  /\ rokuyo.name = "butsumetsu"

(***************************************************************************)
(* C4                                                                      *)
(***************************************************************************)
\* C4: lunarMonth is always in 1..12
C4_LunarMonthInRange == rokuyo.lunarMonth \in 1..12

\* the thirteenth lunation since last year's new year, before this year's:
\* it is reported as month 1
C4_Witness ==
  LET c == JstDate(now)
      k == Lunation(c)
  IN  /\ steps > 0
      /\ k - getNewYearK(c.y) + 1 <= 0
      /\ k - getNewYearK(c.y - 1) + 1 = 13
      /\ rokuyo.lunarMonth = 1

(***************************************************************************)
(* C5                                                                      *)
(***************************************************************************)
\* the day number of the JST date of an instant, and of new moon k
JstDayNumber(t) == AddMs(t, 32400000).day

NewMoonDayNumber(k) ==
  JstDayOf[newMoonJDE[k]]

\* C5: lunarDay = floor(JD(today) - JD(date of new moon k)) + 1, the count
\* of JST days since the bracketing new moon's date; it is 1 on that date,
\* at least 1 and at most 30
C5_LunarDay ==
  LET c == JstDate(now)
      k == Lunation(c)
  IN  /\ rokuyo.lunarDay = ((JDof[c] - JDof[nmJST(k)]) \div 2) + 1
      /\ rokuyo.lunarDay = JstDayNumber(now) - NewMoonDayNumber(k) + 1
      /\ c = nmJST(k) => rokuyo.lunarDay = 1
      /\ rokuyo.lunarDay >= 1
      /\ rokuyo.lunarDay <= 30

\* the day after a 30th day: the date of the next new moon, day 1
C5_Witness ==
  /\ now = AddMs(prev, MsPerDay)
  /\ rokuyoPrev.lunarDay = 30
  /\ JstDate(now) = nmJST(Lunation(JstDate(now)))
  /\ rokuyo.lunarDay = 1

MonthAgainst(t, yearsBack) ==
  Lunation(JstDate(t)) - getNewYearK(JstDate(t).y - yearsBack) + 1

\* C19 as stated: lunarMonth is k - nyK + 1; a value outside 1 .. 12 is
\* recomputed against the prior year's anchor and then clamped into 1 .. 12
C19_RecomputeOutsideThenClamp ==
  LET m1 == MonthAgainst(now, 0)
      m2 == IF m1 < 1 \/ m1 > 12 THEN MonthAgainst(now, 1) ELSE m1
  IN  rokuyo.lunarMonth = IF m2 < 1 THEN 1 ELSE IF m2 > 12 THEN 12 ELSE m2

\* C19 amended: lunarMonth is k - nyK + 1; a value of 0 or less, and no
\* other, is recomputed against the prior year's anchor; a value above 12
\* then has 12 taken off (13 becomes 1) and a value below 1 becomes 1
C19_RecomputeBelowOneThenWrap ==
  LET m1 == MonthAgainst(now, 0)
      m2 == IF m1 <= 0 THEN MonthAgainst(now, 1) ELSE m1
      m3 == IF m2 > 12 THEN m2 - 12 ELSE m2
  IN  rokuyo.lunarMonth = IF m3 < 1 THEN 1 ELSE m3

\* the strip passes from month 12 into a thirteenth lunation since last
\* year's new year: the month recomputed is 13 and month 1 is returned
C19_Witness ==
  /\ steps > 0
  /\ MonthAgainst(now, 0) <= 0
  /\ MonthAgainst(now, 1) = 13
  /\ rokuyoPrev.lunarMonth = 12
  /\ rokuyo.lunarMonth = 1

(***************************************************************************)
(* C20                                                                     *)
(***************************************************************************)
\* C20: two instants of the same JST calendar day give the same lunarMonth,
\* lunarDay and idx: the result changes only when the JST date does, at
\* 15:00 UTC
C20_SameJstDaySameResult ==
  JstDayNumber(prev) = JstDayNumber(now) =>
    /\ rokuyo.lunarMonth = rokuyoPrev.lunarMonth
    /\ rokuyo.lunarDay = rokuyoPrev.lunarDay
    /\ rokuyo.idx = rokuyoPrev.idx

\* a tick from 23:59:59.999 UTC to 00:00 UTC, 09:00 of the same JST day
C20_Witness ==
  /\ steps > 0
  /\ now = AddMs(prev, 1)
  /\ now.ms = 0
  /\ JstDayNumber(prev) = JstDayNumber(now)
  /\ rokuyo = rokuyoPrev

NextLunation ==
  /\ now = AddMs(prev, MsPerDay)
  /\ Lunation(JstDate(now)) = Lunation(JstDate(prev)) + 1

\* C22 as stated: from each lunation to the next lunarMonth advances by
\* exactly one, 12 followed by 1, and two consecutive lunations never have
\* the same month
C22_MonthAdvancesByOne ==
  NextLunation => rokuyo.lunarMonth = (rokuyoPrev.lunarMonth % 12) + 1

\* C22 amended: from each lunation to the next lunarMonth advances by exactly
\* one, 12 followed by 1, except into the lunation of a new year that comes
\* 13 lunations after the one before: the thirteenth lunation is month 1
\* (13 - 12) and the lunation of the new year is month 1 again
C22_AdvancesOrRepeatsOne ==
  NextLunation =>
    \/ rokuyo.lunarMonth = (rokuyoPrev.lunarMonth % 12) + 1
    \/ /\ MonthAgainst(prev, 1) = 13
       /\ MonthAgainst(now, 0) = 1
       /\ rokuyoPrev.lunarMonth = 1
       /\ rokuyo.lunarMonth = 1

\* the strip has passed from month 12 into the thirteenth lunation and from
\* it into the lunation of the new year
C22_Witness ==
  /\ NextLunation
  /\ MonthAgainst(prev, 1) = 13
  /\ Lunation(JstDate(now)) = getNewYearK(JstDate(now).y)
  /\ rokuyoPrev.lunarMonth = 1
  /\ rokuyo.lunarMonth = 1

(***************************************************************************)
(* C23                                                                     *)
(***************************************************************************)
\* by how much idx has advanced from the previous day, modulo 6
IdxJump == (rokuyo.idx - rokuyoPrev.idx + 6) % 6

\* C23 as stated: from the last JST day of a lunation to day 1 of the next
\* idx jumps by 2 modulo 6
C23_JumpsByTwo == NextLunation => IdxJump = 2

\* C23 amended: from the last JST day of a lunation (its day 29 or 30) to
\* day 1 of the next, idx jumps by 2 modulo 6 after a lunation of 30 days
\* and by 3 after one of 29 days where lunarMonth advances, and by one less
\* (1 and 2) where lunarMonth stays 1
C23_JumpFollowsLength ==
  NextLunation =>
    /\ rokuyoPrev.lunarDay \in {29, 30}
    /\ rokuyo.lunarDay = 1
    /\ IdxJump = (IF rokuyoPrev.lunarDay = 30 THEN 1 ELSE 2)
                   + (IF rokuyo.lunarMonth = rokuyoPrev.lunarMonth
                        THEN 0 ELSE 1)

\* day 1 after a lunation of 29 days, in the next month: idx has jumped
\* by 3
C23_Witness ==
  /\ NextLunation
  /\ rokuyoPrev.lunarDay = 29
  /\ rokuyo.lunarMonth = rokuyoPrev.lunarMonth + 1
  /\ IdxJump = 3

(***************************************************************************)
(* The clock of the sunrise / sunset panel                                 *)
(***************************************************************************)
\* <<lat, lng>> in 1/10000 degree: RJCC, RJTT and ROAH of the airport
\* table, and two places beyond the polar circles
Locations ==
  { <<427752, 1416920>>, <<355494, 1397798>>, <<261958, 1276461>>,
    <<700000, 250000>>, <<-700000, 250000>> }

\* days (since 1970-01-01) on which the panel is opened: 29 May 1999, the
\* solstice of December 2025, the equinox of March 2026 and the solstice
\* of June 2026; and the times of day, 11:58:50.880 being the instant the
\* day number n changes
SunDays == {10740, 20443, 20534, 20625}

SunOpenMs == {0, 43130880}

\* what the clock may have advanced by at the next setNow(new Date()):
\* 1 ms, the 60 s timer
SunStepsMs == {1, 60000}

SunStepDays == 30

InitSun ==
  /\ now \in { Instant(d, m) : d \in SunDays, m \in SunOpenMs }
  /\ prev = now
  /\ steps = 0
  /\ \E ap \in Locations : lat = ap[1] /\ lng = ap[2]
  /\ cosH0 = SunCosH0(now, lat, lng)
  /\ sun = sunriseSunset(now, lat, lng)
  /\ JulianIdle /\ MoonIdle /\ RokuyoIdle /\ CallIdle /\ SearchIdle
  /\ LaterIdle

SunUpdate(t, ap) ==
  /\ steps < MaxUpdates
  /\ steps' = steps + 1
  /\ prev' = now
  /\ now' = t
  /\ lat' = ap[1]
  /\ lng' = ap[2]
  /\ cosH0' = SunCosH0(t, ap[1], ap[2])
  /\ sun' = sunriseSunset(t, ap[1], ap[2])
  /\ UNCHANGED <<julianVars, moonVars, rokuyoVars, callVars, searchVars>>
  /\ UNCHANGED laterVars

\* setNow(new Date()) i ms later
SunTick(i) == SunUpdate(AddMs(now, i), <<lat, lng>>)

\* the page is looked at again SunStepDays days later
SunLater == SunUpdate(Instant(now.day + SunStepDays, now.ms), <<lat, lng>>)

\* sunriseSunset(now, ap.lat, ap.lng) for another airport
SunSelect(ap) ==
  /\ ap # <<lat, lng>>
  /\ SunUpdate(now, ap)

NextSun ==
  \/ \E i \in SunStepsMs : SunTick(i)
  \/ SunLater
  \/ \E ap \in Locations : SunSelect(ap)

SpecSun == InitSun /\ [][NextSun]_vars

(***************************************************************************)
(* C1                                                                      *)
(***************************************************************************)
\* C1: sunriseSunset returns null or a record with both rise and set,
\* never exactly one of them
C1_NullOrBoth ==
  \/ sun = Null
  \/ /\ DOMAIN sun = {"rise", "set"}
     /\ Len(sun.rise) = 4 /\ Len(sun.set) = 4

\* a sunrise and a sunset were computed beyond the polar circle
C1_Witness ==
  /\ steps > 0
  /\ Abs(lat) = 700000
  /\ sun # Null
  /\ "rise" \in DOMAIN sun /\ "set" \in DOMAIN sun

(***************************************************************************)
(* C2                                                                      *)
(***************************************************************************)
\* C2: sunriseSunset returns null exactly when cosH0 < -1 or cosH0 > 1,
\* and when cosH0 is in [-1, 1] it returns rise and set
C2_NullIffNoCrossing ==
  /\ sun = Null <=> (cosH0 < -Scale \/ cosH0 > Scale)
  /\ (-Scale <= cosH0 /\ cosH0 <= Scale) =>
       ("rise" \in DOMAIN sun /\ "set" \in DOMAIN sun)

\* polar day: the sun does not set and null was returned
C2_Witness ==
  /\ steps > 0
  /\ cosH0 < -Scale
  /\ sun = Null

(***************************************************************************)
(* C14                                                                     *)
(***************************************************************************)
\* the day of the solstice of December 2025
Midwinter(t) == t.day = 20443

\* C14: on a midwinter day at latitude 70.0, longitude 25.0, cosH0 is
\* above 1 and sunriseSunset returns null
C14_PolarNight ==
  (Midwinter(now) /\ lat = 700000 /\ lng = 250000) =>
    (cosH0 > Scale /\ sun = Null)

\* polar night: sunriseSunset was called for 70.0, 25.0 on the solstice
C14_Witness ==
  /\ steps > 0
  /\ Midwinter(now)
  /\ lat = 700000 /\ lng = 250000
  /\ cosH0 > Scale
  /\ sun = Null

(***************************************************************************)
(* C25                                                                     *)
(***************************************************************************)
\* the milliseconds from the instant a to the instant b, less than 24 days
\* apart
MsBetween(a, b) == (b.day - a.day) * MsPerDay + (b.ms - a.ms)

\* C25: whenever times are returned they are the clock times of Jrise and
\* Jset, which lie H0 / 360 day before and after Jtransit with H0 in
\* [0, 180] degrees: Jrise <= Jtransit <= Jset, and Jset is at most one
\* day after Jrise
C25_SymmetricAboutTransit ==
  sun # Null =>
    LET J  == SunTimes(now, lng, cosH0)
        H0 == Deg[Acos[cosH0]]
    IN  /\ sun = [rise |-> toUTC(J.Jrise), set |-> toUTC(J.Jset)]
        /\ H0 >= 0 /\ H0 <= 180000000
        /\ MsBetween(J.Jrise, J.Jtransit) = (6 * H0) \div 25
        /\ MsBetween(J.Jtransit, J.Jset) = (6 * H0) \div 25
        /\ ~Before(J.Jtransit, J.Jrise)
        /\ ~Before(J.Jset, J.Jtransit)
        /\ MsBetween(J.Jrise, J.Jset) <= MsPerDay

\* a day of more than 12 hours whose sunset falls on the UTC day after its
\* sunrise
C25_Witness ==
  /\ steps > 0
  /\ sun # Null
  /\ Deg[Acos[cosH0]] > 90000000
  /\ SunTimes(now, lng, cosH0).Jrise.day < SunTimes(now, lng, cosH0).Jset.day

(***************************************************************************)
(* Calls of the almanac functions with a Date the caller holds, in any     *)
(* order, while the wall clock runs                                        *)
(***************************************************************************)
\* the instant the page is opened: 25 Dec 2025, 23:59:59.999 JST
CallOpen == Instant(20447, 53999999)

\* sunriseSunset(now, 35.5494, 139.7798) and (now, 26.1958, 127.6461)
CallPlaces == { <<355494, 1397798>>, <<261958, 1276461>> }

\* i of new Date(now.getTime() + i * 86400000): the first two days of the
\* 7-day strip
StripDays == {0, 1}

\* days the wall clock is followed
MaxWallDays == 2

InitCalls ==
  /\ now = CallOpen
  /\ prev = now
  /\ steps = 0
  /\ argDate = now
  /\ call = NotComputed
  /\ first = NotComputed
  /\ JulianIdle /\ MoonIdle /\ SunIdle /\ RokuyoIdle /\ SearchIdle
  /\ LaterIdle

\* a day passes on the wall clock (new Date() would return now')
WallClock ==
  /\ steps < MaxWallDays
  /\ steps' = steps + 1
  /\ prev' = now
  /\ now' = AddMs(now, MsPerDay)
  /\ UNCHANGED <<argDate, call, first>>
  /\ UNCHANGED <<julianVars, moonVars, sunVars, rokuyoVars, searchVars>>
  /\ UNCHANGED laterVars

\* const d = new Date(now.getTime() + i * 86400000): the caller holds
\* another Date
PassDate(i) ==
  /\ argDate' = AddMs(now, i * MsPerDay)
  /\ argDate' # argDate
  /\ UNCHANGED <<now, prev, steps, call, first>>
  /\ UNCHANGED <<julianVars, moonVars, sunVars, rokuyoVars, searchVars>>
  /\ UNCHANGED laterVars

\* fn is called with the arguments given, when the wall clock shows now,
\* and returns result; the functions build new values
\* (new Date(date.getTime() + 9 * 3600000)) and assign only to locals
Call(fn, given, result) ==
  /\ call' = [fn |-> fn, given |-> given, result |-> result, when |-> now]
  /\ first' = IF first = NotComputed THEN call' ELSE first
  /\ UNCHANGED <<now, prev, steps, argDate>>
  /\ UNCHANGED <<julianVars, moonVars, sunVars, rokuyoVars, searchVars>>
  /\ UNCHANGED laterVars

CallToJulian == Call("toJulian", <<argDate>>, toJulian(argDate))

CallMoonPhase == Call("moonPhase", <<argDate>>, moonPhase(argDate))

\* lunarJpName(moon.age) for moon = moonPhase(argDate)
CallLunarJpName ==
  Call("lunarJpName", <<moonPhase(argDate).age>>,
       lunarJpName(moonPhase(argDate).age))

CallSunriseSunset(ap) ==
  Call("sunriseSunset", <<argDate, ap[1], ap[2]>>,
       sunriseSunset(argDate, ap[1], ap[2]))

CallGetRokuyo == Call("getRokuyo", <<argDate>>, getRokuyo(argDate))

NextCalls ==
  \/ WallClock
  \/ \E i \in StripDays : PassDate(i)
  \/ CallToJulian
  \/ CallMoonPhase
  \/ CallLunarJpName
  \/ \E ap \in CallPlaces : CallSunriseSunset(ap)
  \/ CallGetRokuyo

SpecCalls == InitCalls /\ [][NextCalls]_vars

SearchDays == {12473, 19417, 20442, 20470}

MaxDrift == 14

\* lunations between the estimate the loop is entered with and line 311's
Drifts == {-MaxDrift, -1, 0, 1, MaxDrift}

\* let kk = Math.floor((yr + 1.5 / 12 - 2000) * 12.3685) + 1
NewYearEstimate(yr) == (((8 * (yr - 2000) + 1) * 123685) \div 80000) + 1

\* JD(nmJST(k)) > jdToday
WalkDown(k, jdToday) == JDof[nmJST(k)] > jdToday

\* the condition of the second loop with < in place of <=
WalkUp_strict(k, jdToday) == JDof[nmJST(k + 1)] < jdToday

\* JD(nmJST(k + 1)) <= jdToday
WalkUp(k, jdToday) == JDof[nmJST(k + 1)] <= jdToday

\* a loop body that leaves k as it is
Decrement_none(k) == k

\* k--
Decrement(k) == k - 1

InitSearch ==
  /\ now \in { Instant(d, 0) : d \in SearchDays }
  /\ prev = now
  /\ steps = 0
  /\ jstToday = JstDate(now)
  /\ \E drift \in Drifts :
       estimate = LunationEstimate(jstToday.y, jstToday.m) + drift
  /\ loopK = estimate
  /\ loopKK = 0   \* kk and the value returned: not yet declared, read by
  /\ nyK = 0      \* nothing before StepUp and StepNewYear assign them
  /\ pc = "down"
  /\ JulianIdle /\ MoonIdle /\ SunIdle /\ RokuyoIdle /\ CallIdle
  /\ LaterIdle

\* while (JD(nmJST(k)) > jdToday) k--: one evaluation of the condition
StepDown ==
  /\ pc = "down"
  /\ IF WalkDown(loopK, JDof[jstToday])
       THEN loopK' = Decrement(loopK) /\ pc' = pc
       ELSE loopK' = loopK /\ pc' = "up"
  /\ UNCHANGED <<now, prev, steps, jstToday, estimate, loopKK, nyK>>
  /\ UNCHANGED <<julianVars, moonVars, sunVars, rokuyoVars, callVars>>
  /\ UNCHANGED laterVars

\* while (JD(nmJST(k + 1)) <= jdToday) k++: one evaluation of the
\* condition; leaving the loop enters getNewYearK(y)
StepUp ==
  /\ pc = "up"
  /\ IF WalkUp(loopK, JDof[jstToday])
       THEN loopK' = loopK + 1 /\ pc' = pc /\ loopKK' = loopKK
       ELSE /\ loopK' = loopK
            /\ pc' = "newYear"
            /\ loopKK' = NewYearEstimate(jstToday.y)
  /\ UNCHANGED <<now, prev, steps, jstToday, estimate, nyK>>
  /\ UNCHANGED <<julianVars, moonVars, sunVars, rokuyoVars, callVars>>
  /\ UNCHANGED laterVars

\* while (JD(nmJST(kk)) <= usui) kk++; return kk - 1
StepNewYear ==
  /\ pc = "newYear"
  /\ IF JDof[nmJST(loopKK)] <= JD(jstToday.y, 2, 19)
       THEN loopKK' = loopKK + 1 /\ pc' = pc /\ nyK' = nyK
       ELSE loopKK' = loopKK /\ pc' = "done" /\ nyK' = loopKK - 1
  /\ UNCHANGED <<now, prev, steps, jstToday, estimate, loopK>>
  /\ UNCHANGED <<julianVars, moonVars, sunVars, rokuyoVars, callVars>>
  /\ UNCHANGED laterVars

NextSearch == StepDown \/ StepUp \/ StepNewYear

\* a running function takes its next step: nothing suspends it
SpecSearch == InitSearch /\ [][NextSearch]_vars /\ WF_vars(NextSearch)

\* civil dates compared as dates
CivilBefore(a, b) ==
  \/ a.y < b.y
  \/ a.y = b.y /\ a.m < b.m
  \/ a.y = b.y /\ a.m = b.m /\ a.d < b.d

C16_BracketHolds ==
  pc \in {"newYear", "done"} =>
    /\ ~CivilBefore(jstToday, nmJST(loopK))
    /\ CivilBefore(jstToday, nmJST(loopK + 1))

\* the loops have finished from an estimate that was too low, on the date
\* of a new moon
C16_Witness ==
  /\ pc = "done"
  /\ loopK - estimate >= 2
  /\ nmJST(loopK) = jstToday

(***************************************************************************)
(* C17                                                                     *)
(***************************************************************************)
\* C17: the two loops come to an end for every date and every estimate
C17_SearchTerminates == <>(pc \in {"newYear", "done"})

\* the loops have finished more than 12 lunations from the estimate
C17_Witness ==
  /\ pc = "newYear"
  /\ Abs(loopK - estimate) > 12

(***************************************************************************)
(* C18                                                                     *)
(***************************************************************************)
\* C18: getNewYearK(y) returns the lunation nyK whose new moon is not after
\* 19 February of y, the next new moon being after it
C18_NewYearBracket ==
  pc = "done" =>
    LET usui == [y |-> jstToday.y, m |-> 2, d |-> 19]
    IN  /\ ~CivilBefore(usui, nmJST(nyK))
        /\ CivilBefore(usui, nmJST(nyK + 1))

(***************************************************************************)
(* The phase selection of moonPhase (lines 84 - 88) over one lunation,     *)
(* swept in Grid equal steps of the fraction pct: step n has pct = n/Grid  *)
(***************************************************************************)
\* the sweep has 2^GridBits steps
GridBits == 7

Grid == 2 ^ GridBits

\* the distinct phase names
PhaseNames == { names[i] : i \in 1..Len(names) }

\* names[Math.round(pct * 8) % 9] for pct = n / Grid
PhaseNameAt(n) ==
  At(names, PhaseIndex([num |-> Dur(n, 0, 0), den |-> Dur(Grid, 0, 0)]))

InitPhase ==
  /\ sweepAt = 0
  /\ shown = [x \in PhaseNames |-> 0]
  /\ ClockIdle /\ NewMoonIdle /\ CivilIdle /\ WorkerIdle
  /\ PreflightIdle /\ ProxyIdle

\* the name shown at the next fraction of the sweep
PhaseStep ==
  /\ sweepAt < Grid
  /\ shown' = [shown EXCEPT ![PhaseNameAt(sweepAt)] = @ + 1]
  /\ sweepAt' = sweepAt + 1
  /\ UNCHANGED <<clockVars, newMoonVars, civilVars, workerVars>>
  /\ UNCHANGED <<preflightVars, proxyVars>>

NextPhase == PhaseStep

SpecPhase == InitPhase /\ [][NextPhase]_vars

(***************************************************************************)
(* C24                                                                     *)
(***************************************************************************)
\* C24: there are 8 distinct phase names and over the whole range [0, 1)
\* of the fraction each is returned for exactly one eighth of it; the
\* new-moon name is the one of index 0 and of index 8
C24_EqualEighths ==
  sweepAt = Grid =>
    /\ Cardinality(PhaseNames) = 8
    /\ \A x \in PhaseNames : 8 * shown[x] = Grid
    /\ At(names, 0) = At(names, 8)

\* the sweep is complete; the new-moon name was shown at its first and at
\* its last step, from index 0 and from index 8, for one eighth in all
C24_Witness ==
  /\ sweepAt = Grid
  /\ PhaseIndex([num |-> Dur(0, 0, 0), den |-> Dur(Grid, 0, 0)]) = 0
  /\ PhaseIndex([num |-> Dur(Grid - 1, 0, 0), den |-> Dur(Grid, 0, 0)]) = 8
  /\ PhaseNameAt(0) = PhaseNameAt(Grid - 1)
  /\ 8 * shown[PhaseNameAt(0)] = Grid

(***************************************************************************)
(* newMoonJDE and nmJST (lines 285 - 303) called for consecutive lunation  *)
(* indices, before and after the epoch k = 0                               *)
(***************************************************************************)
\* the k the calls start from: new moons of 1896, 1997 and 2092
NewMoonStarts == {-1285, -30, 1150}

\* consecutive lunations followed from each
MaxLunations == 45

InitNewMoon ==
  /\ lunationK \in NewMoonStarts
  /\ jdeAt = newMoonJDE[lunationK]
  /\ jdeBefore = newMoonJDE[lunationK - 1]
  /\ ClockIdle /\ PhaseIdle /\ CivilIdle /\ WorkerIdle
  /\ PreflightIdle /\ ProxyIdle

\* newMoonJDE(k + 1)
NewMoonNext ==
  /\ \E k0 \in NewMoonStarts :
       k0 <= lunationK /\ lunationK < k0 + MaxLunations
  /\ lunationK' = lunationK + 1
  /\ jdeBefore' = jdeAt
  /\ jdeAt' = newMoonJDE[lunationK + 1]
  /\ UNCHANGED <<clockVars, phaseVars, civilVars, workerVars>>
  /\ UNCHANGED <<preflightVars, proxyVars>>

NextNewMoon == NewMoonNext

SpecNewMoon == InitNewMoon /\ [][NextNewMoon]_vars

(***************************************************************************)
(* C26                                                                     *)
(***************************************************************************)
\* the whole days from the civil date a to the civil date b, by JD
CivilDaysBetween(a, b) == (JDof[b] - JDof[a]) \div 2

\* C26: newMoonJDE(k) > newMoonJDE(k - 1), for negative k too, and the JST
\* civil dates of the two new moons are 29 or 30 days apart
C26_NewMoonsIncrease ==
  /\ DurLess(jdeBefore, jdeAt)
  /\ CivilDaysBetween(nmJST(lunationK - 1), nmJST(lunationK)) \in {29, 30}
  /\ JstDayOf[jdeAt] - JstDayOf[jdeBefore] \in {29, 30}

\* two new moons before the epoch whose dates are 30 days apart, less than
\* 29.5 days after each other
C26_Witness ==
  /\ lunationK < 0
  /\ lunationK \notin NewMoonStarts
  /\ CivilDaysBetween(nmJST(lunationK - 1), nmJST(lunationK)) = 30
  /\ DurLess(DurSub(jdeAt, jdeBefore), Dur(29, 43200, 0))

(***************************************************************************)
(* JD (lines 278 - 283) and toJulian (lines 75 - 77) on the same civil     *)
(* dates: a first date, and a second one moved forward a day at a time     *)
(* over month ends, leap days and year ends                                *)
(***************************************************************************)
\* day numbers the first date is drawn from: 25 Feb of 2024, 2100, 2000,
\* 1900, 2023, 0, -4800 and 50000, 28 Dec of 1999, -1 and -4801, and
\* 1 Oct 1582, 27 Apr 2025
CivilStarts ==
  { 19778, 47537, 11012, -25512, 19413, -719473, -2472637, 17542652,
    10953, -719532, -2472696, -141441, 20205 }

\* days the second date is moved forward
MaxCivilDays == 8

\* JD of the date read by the UTC getters on the 00:00 instant of a day
JDofDay(dayNumber) == JDof[CivilFromDays[dayNumber]]

InitCivil ==
  /\ civilFrom \in CivilStarts
  /\ civilTo = civilFrom
  /\ jdFrom = JDofDay(civilFrom)
  /\ jdTo = jdFrom
  /\ jdUTC = toJulian(Instant(civilFrom, 0))
  /\ ClockIdle /\ PhaseIdle /\ NewMoonIdle /\ WorkerIdle
  /\ PreflightIdle /\ ProxyIdle

\* the second date becomes the next civil date
NextCivilDate ==
  /\ civilTo < civilFrom + MaxCivilDays
  /\ civilTo' = civilTo + 1
  /\ jdTo' = JDofDay(civilTo + 1)
  /\ jdUTC' = toJulian(Instant(civilTo + 1, 0))
  /\ UNCHANGED <<civilFrom, jdFrom>>
  /\ UNCHANGED <<clockVars, phaseVars, newMoonVars, workerVars>>
  /\ UNCHANGED <<preflightVars, proxyVars>>

NextCivil == NextCivilDate

SpecCivil == InitCivil /\ [][NextCivil]_vars

(***************************************************************************)
(* C27                                                                     *)
(***************************************************************************)
\* C27: JD(y, m, d) equals toJulian of the date's 00:00 UTC instant, and
\* JD(date2) - JD(date1) is the whole number of civil days from date1 to
\* date2 (JD is kept doubled, toJulian is w + 1/2 + h/1024 + g ulps)
C27_JDAgreesWithToJulian ==
  /\ jdUTC.h = 0 /\ jdUTC.g = 0
  /\ jdTo = 2 * jdUTC.w + 1
  /\ jdTo - jdFrom = 2 * (civilTo - civilFrom)

\* date1 is 25 Feb and date2 is 1 Mar of a leap year that is a multiple of
\* 400: the dates are 5 days apart, over 29 Feb
C27_Witness ==
  /\ CivilFromDays[civilFrom] = [y |-> 2000, m |-> 2, d |-> 25]
  /\ CivilFromDays[civilTo] = [y |-> 2000, m |-> 3, d |-> 1]
  /\ jdTo - jdFrom = 10

(***************************************************************************)
(* The CORS proxy worker (src/worker/src/index.js, lines 1 - 87).          *)
(*                                                                         *)
(* A path is the sequence of its pieces: "/" and the words between the     *)
(* slashes, a word that continues another one being a piece of its own     *)
(* ("tafx" is "taf", "x").  No piece holds a "/" and no word is made of    *)
(* other pieces, so two paths are the same string exactly when they are    *)
(* the same sequence, and startsWith, slice and + are the prefix test,     *)
(* the suffix and the concatenation of sequences.  url.pathname is the     *)
(* path new URL() has already normalised.                                  *)
(***************************************************************************)
\* "/" + words[1] + "/" + words[2] + ...
RECURSIVE PathOf(_)
PathOf(words) ==
  IF words = <<>> THEN <<>>
  ELSE <<"/", Head(words)>> \o PathOf(Tail(words))

\* s.startsWith(p)
StartsWith(s, p) == Len(s) >= Len(p) /\ SubSeq(s, 1, Len(p)) = p

\* s.slice(n)
Slice(s, n) == SubSeq(s, n + 1, Len(s))

AWC_BASE == "https://aviationweather.gov"

TENKI_BASE == "https://static.tenki.jp"

ALLOWED_PATHS ==
  << PathOf(<<"api", "data", "taf">>), PathOf(<<"api", "data", "metar">>),
     PathOf(<<"api", "data", "isigmet">>),
     PathOf(<<"api", "data", "airsigmet">>),
     PathOf(<<"api", "data", "pirep">>) >>

TENKI_PREFIX == <<"/", "tenki", "/">>

\* "/static-api/history/pollen/" of line 50
PollenPrefix == PathOf(<<"static-api", "history", "pollen">>) \o <<"/">>

\* the whitelist test of line 54 with startsWith(p) in place of
\* startsWith(p + "/")
IsAllowedPath_prefix(path) ==
  \E i \in 1..Len(ALLOWED_PATHS) :
    path = ALLOWED_PATHS[i] \/ StartsWith(path, ALLOWED_PATHS[i])

\* ALLOWED_PATHS.some(p => path === p || path.startsWith(p + "/"))
IsAllowedPath(path) ==
  \E i \in 1..Len(ALLOWED_PATHS) :
    path = ALLOWED_PATHS[i] \/ StartsWith(path, ALLOWED_PATHS[i] \o <<"/">>)

\* lines 44 - 58: the upstream URL of a GET for path, or the 404
Route(path, search) ==
  IF StartsWith(path, TENKI_PREFIX)
    THEN LET tenkiPath == <<"/">> \o Slice(path, Len(TENKI_PREFIX))
         IN  IF ~StartsWith(tenkiPath, PollenPrefix)
               THEN [status |-> 404]
               ELSE [base |-> TENKI_BASE, path |-> tenkiPath, search |-> ""]
  ELSE IF IsAllowedPath(path)
    THEN [base |-> AWC_BASE, path |-> path, search |-> search]
  ELSE [status |-> 404]

\* the methods and the query strings of the requests received
Methods == {"GET", "OPTIONS", "POST", "HEAD"}

Searches == {"", "?ids=RJTT"}

\* the paths of the requests received
RequestPaths ==
  { <<"/">>,
    PathOf(<<"api", "data", "taf">>),
    PathOf(<<"api", "data", "taf">>) \o <<"/">>,
    PathOf(<<"api", "data", "taf", "x">>),
    PathOf(<<"api", "data", "taf">>) \o <<"x">>,
    PathOf(<<"api", "data", "metar">>),
    PathOf(<<"api", "data", "isigmet">>),
    PathOf(<<"api", "data", "airsigmet">>),
    PathOf(<<"api", "data", "pirep", "x">>),
    PathOf(<<"api", "data">>),
    PathOf(<<"api", "data">>) \o <<"/">>,
    PathOf(<<"API", "data", "taf">>),
    PathOf(<<"x", "api", "data", "taf">>),
    PathOf(<<"tenki">>),
    TENKI_PREFIX,
    PathOf(<<"tenki", "static-api", "history", "pollen", "13101.js">>),
    PathOf(<<"tenki", "static-api", "history", "pollen">>),
    PathOf(<<"tenki", "static-api", "history", "pollen">>) \o <<"/">>,
    PathOf(<<"tenki", "static-api", "history", "x">>),
    TENKI_PREFIX \o PathOf(<<"static-api", "history", "pollen", "x">>),
    PathOf(<<"tenki", "api", "data", "taf">>),
    PathOf(<<"static-api", "history", "pollen", "13101.js">>) }

\* the statuses an upstream host answers with
UpstreamStatuses == {200, 404, 500}

Pending == [pending |-> TRUE]

Threw == [threw |-> TRUE]

\* the worker is deployed; no request has arrived
InitWorker ==
  /\ request = Null
  /\ upstreamUrl = Null
  /\ resp = Null
  /\ response = Null
  /\ ClockIdle /\ PhaseIdle /\ NewMoonIdle /\ CivilIdle
  /\ PreflightIdle /\ ProxyIdle

\* fetch(request), lines 29 - 60: up to its return or to the await of the
\* upstream fetch (requests share no state: they are taken one at a time)
WorkerFetch(method, path, search) ==
  /\ response # Pending
  /\ request' = [method |-> method, path |-> path, search |-> search]
  /\ resp' = Null
  /\ IF method = "OPTIONS"
       THEN response' = [status |-> 204] /\ upstreamUrl' = Null
     ELSE IF method # "GET"
       THEN response' = [status |-> 405] /\ upstreamUrl' = Null
     ELSE IF "status" \in DOMAIN Route(path, search)
       THEN response' = Route(path, search) /\ upstreamUrl' = Null
     ELSE response' = Pending /\ upstreamUrl' = Route(path, search)
  /\ UNCHANGED <<clockVars, phaseVars, newMoonVars, civilVars>>
  /\ UNCHANGED <<preflightVars, proxyVars>>

\* the upstream host answered: lines 67 - 79
UpstreamAnswers(status) ==
  /\ response = Pending
  /\ resp' = [status |-> status]
  /\ response' = [status |-> status]
  /\ UNCHANGED <<request, upstreamUrl>>
  /\ UNCHANGED <<clockVars, phaseVars, newMoonVars, civilVars>>
  /\ UNCHANGED <<preflightVars, proxyVars>>

\* the upstream fetch rejected: lines 80 - 85
UpstreamFails ==
  /\ response = Pending
  /\ resp' = Threw
  /\ response' = [status |-> 502]
  /\ UNCHANGED <<request, upstreamUrl>>
  /\ UNCHANGED <<clockVars, phaseVars, newMoonVars, civilVars>>
  /\ UNCHANGED <<preflightVars, proxyVars>>

NextWorker ==
  \/ \E method \in Methods, path \in RequestPaths, search \in Searches :
       WorkerFetch(method, path, search)
  \/ \E status \in UpstreamStatuses : UpstreamAnswers(status)
  \/ UpstreamFails

SpecWorker == InitWorker /\ [][NextWorker]_vars

(***************************************************************************)
(* C28                                                                     *)
(***************************************************************************)
\* path is a whitelisted AWC API path, or one followed by "/"
WhitelistedAwc(path) ==
  \E i \in 1..Len(ALLOWED_PATHS) :
    LET p == ALLOWED_PATHS[i]
    IN  /\ Len(path) >= Len(p)
        /\ \A j \in 1..Len(p) : path[j] = p[j]
        /\ Len(path) > Len(p) => path[Len(p) + 1] = "/"

\* path is /tenki/ followed by a path under static-api/history/pollen/
TenkiPollen(path) ==
  LET under == PathOf(<<"tenki", "static-api", "history", "pollen">>)
                 \o <<"/">>
  IN  /\ Len(path) >= Len(under)
      /\ \A j \in 1..Len(under) : path[j] = under[j]

\* C28: an upstream host is contacted only for a GET of a whitelisted AWC
\* path or of a /tenki/ pollen path; OPTIONS gets 204, any other method
\* 405 and any other path 404, each without an upstream request, and a
\* failed upstream fetch gives 502
C28_OnlyWhitelistedUpstream ==
  request # Null =>
    /\ upstreamUrl # Null =>
         /\ request.method = "GET"
         /\ \/ /\ WhitelistedAwc(request.path)
               /\ upstreamUrl = [base |-> AWC_BASE, path |-> request.path,
                                 search |-> request.search]
            \/ /\ TenkiPollen(request.path)
               /\ upstreamUrl.base = TENKI_BASE
               /\ <<"/", "tenki">> \o upstreamUrl.path = request.path
    /\ request.method = "OPTIONS" =>
         response = [status |-> 204] /\ upstreamUrl = Null
    /\ request.method \notin {"GET", "OPTIONS"} =>
         response = [status |-> 405] /\ upstreamUrl = Null
    /\ ( /\ request.method = "GET"
         /\ ~WhitelistedAwc(request.path)
         /\ ~TenkiPollen(request.path) ) =>
         response = [status |-> 404] /\ upstreamUrl = Null
    /\ resp = Threw => response = [status |-> 502]

\* a GET of /api/data/taf/x with a query was passed on to the AWC host,
\* whose fetch failed: the worker answered 502
C28_Witness ==
  /\ request # Null
  /\ request.method = "GET"
  /\ request.path = PathOf(<<"api", "data", "taf", "x">>)
  /\ request.search # ""
  /\ upstreamUrl # Null
  /\ upstreamUrl.base = AWC_BASE
  /\ resp = Threw
  /\ response = [status |-> 502]

(***************************************************************************)
(* The service worker's message listener, PREFLIGHT_CACHE (lines 128 -     *)
(* 148), run from one await to the next.  results[i] tells what became of  *)
(* urls[i]: "fetching" or "putting" while the handler awaits fetch or      *)
(* cache.put for it, then "stored", "putThrew", "notOk" or "threw".        *)
(***************************************************************************)
\* the URLs a message may list, and the longest list
PreflightUrls == {"u1", "u2"}

MaxUrls == 3

\* the messages received: e.data with a list of URLs, or without urls
PreflightMessages ==
  { [type |-> "PREFLIGHT_CACHE", urls |-> list] :
      list \in UNION { [1..n -> PreflightUrls] : n \in 0..MaxUrls } }
    \cup { [type |-> "PREFLIGHT_CACHE"] }

\* the window clients the worker may control when the loop ends
Clients == {1, 2}

\* the URL in progress ends with outcome; the for loop fetches the next
\* URL or is left
Finish(outcome) ==
  LET ended == [results EXCEPT ![Len(results)] = outcome]
  IN  IF Len(results) < Len(urls)
        THEN swPc' = "fetch" /\ results' = Append(ended, "fetching")
        ELSE swPc' = "matchAll" /\ results' = ended

\* clients.forEach(c => c.postMessage(...)) for the clients cs
DoneMessages(cs) ==
  LET msg(c) == [to |-> c, type |-> "PREFLIGHT_CACHE_DONE",
                 cached |-> cached, failed |-> failed, total |-> Len(urls)]
  IN  (IF 1 \in cs THEN <<msg(1)>> ELSE <<>>)
        \o (IF 2 \in cs THEN <<msg(2)>> ELSE <<>>)

\* the worker is active; no message has arrived
InitPreflight ==
  /\ swPc = "idle"
  /\ urls = <<>>
  /\ results = <<>>
  /\ cached = 0
  /\ failed = 0
  /\ cache = {}
  /\ posted = <<>>
  /\ ClockIdle /\ PhaseIdle /\ NewMoonIdle /\ CivilIdle /\ WorkerIdle
  /\ ProxyIdle

\* lines 128 - 131: the listener runs for e.data and awaits caches.open
ReceivePreflight(data) ==
  /\ swPc = "idle"
  /\ data.type = "PREFLIGHT_CACHE"
  /\ urls' = IF "urls" \in DOMAIN data THEN data.urls ELSE <<>>
  /\ swPc' = "open"
  /\ UNCHANGED <<results, cached, failed, cache, posted>>
  /\ UNCHANGED <<clockVars, phaseVars, newMoonVars, civilVars, workerVars>>
  /\ UNCHANGED proxyVars

\* lines 132 - 136: the cache is open; the loop starts on the first URL
CacheOpens ==
  /\ swPc = "open"
  /\ cached' = 0
  /\ failed' = 0
  /\ IF urls = <<>>
       THEN swPc' = "matchAll" /\ UNCHANGED results
       ELSE swPc' = "fetch" /\ results' = <<"fetching">>
  /\ UNCHANGED <<urls, cache, posted>>
  /\ UNCHANGED <<clockVars, phaseVars, newMoonVars, civilVars, workerVars>>
  /\ UNCHANGED proxyVars

\* lines 136 - 139 with the else branch of line 138 dropped
FetchSettles_noElse(outcome) ==
  /\ swPc = "fetch"
  /\ IF outcome = "ok"
       THEN /\ swPc' = "put"
            /\ results' = [results EXCEPT ![Len(results)] = "putting"]
            /\ UNCHANGED failed
       ELSE /\ failed' = IF outcome = "threw" THEN failed + 1 ELSE failed
            /\ Finish(outcome)
  /\ UNCHANGED <<urls, cached, cache, posted>>
  /\ UNCHANGED <<clockVars, phaseVars, newMoonVars, civilVars, workerVars>>
  /\ UNCHANGED proxyVars

\* lines 136 - 139: fetch(url) settled, with an ok response, a response
\* that is not ok, or an error
FetchSettles(outcome) ==
  /\ swPc = "fetch"
  /\ IF outcome = "ok"
       THEN /\ swPc' = "put"
            /\ results' = [results EXCEPT ![Len(results)] = "putting"]
            /\ UNCHANGED failed
       ELSE /\ failed' = failed + 1
            /\ Finish(outcome)
  /\ UNCHANGED <<urls, cached, cache, posted>>
  /\ UNCHANGED <<clockVars, phaseVars, newMoonVars, civilVars, workerVars>>
  /\ UNCHANGED proxyVars

\* lines 137, 139: cache.put(url, res) settled: the response is stored, or
\* put threw
PutSettles(outcome) ==
  /\ swPc = "put"
  /\ IF outcome = "stored"
       THEN /\ cache' = cache \cup {urls[Len(results)]}
            /\ cached' = cached + 1
            /\ UNCHANGED failed
       ELSE /\ failed' = failed + 1
            /\ UNCHANGED <<cache, cached>>
  /\ Finish(outcome)
  /\ UNCHANGED <<urls, posted>>
  /\ UNCHANGED <<clockVars, phaseVars, newMoonVars, civilVars, workerVars>>
  /\ UNCHANGED proxyVars

\* lines 141 - 146: clients.matchAll() resolved with the clients cs
MatchAllResolves(cs) ==
  /\ swPc = "matchAll"
  /\ posted' = posted \o DoneMessages(cs)
  /\ swPc' = "done"
  /\ UNCHANGED <<urls, results, cached, failed, cache>>
  /\ UNCHANGED <<clockVars, phaseVars, newMoonVars, civilVars, workerVars>>
  /\ UNCHANGED proxyVars

\* the steps the handler takes once a message has arrived
PreflightRuns ==
  \/ CacheOpens
  \/ \E outcome \in {"ok", "notOk", "threw"} : FetchSettles(outcome)
  \/ \E outcome \in {"stored", "putThrew"} : PutSettles(outcome)
  \/ \E cs \in SUBSET Clients : MatchAllResolves(cs)

NextPreflight ==
  \/ \E data \in PreflightMessages : ReceivePreflight(data)
  \/ PreflightRuns

\* every promise the handler awaits settles
SpecPreflight ==
  InitPreflight /\ [][NextPreflight]_vars /\ WF_vars(PreflightRuns)

(***************************************************************************)
(* C29                                                                     *)
(***************************************************************************)
\* the positions of results that hold one of the outcomes
Positions(outcomes) == { i \in 1..Len(results) : results[i] \in outcomes }

\* what holds at every moment of the handler: one URL at a time in list
\* order, cached the number of responses stored, nothing posted before the
\* loop is left, then one message a client with the final counts
PreflightSafe ==
  /\ Len(results) <= Len(urls)
  /\ Positions({"fetching", "putting"}) \subseteq {Len(results)}
  /\ Positions({"fetching", "putting"}) # {} <=> swPc \in {"fetch", "put"}
  /\ cached = Cardinality(Positions({"stored"}))
  /\ failed = Cardinality(Positions({"putThrew", "notOk", "threw"}))
  /\ cache = { urls[i] : i \in Positions({"stored"}) }
  /\ swPc # "done" => posted = <<>>
  /\ swPc = "done" =>
       /\ Len(results) = Len(urls)
       /\ cached + failed = Len(urls)
       /\ \A i \in 1..Len(posted) :
            /\ posted[i].type = "PREFLIGHT_CACHE_DONE"
            /\ posted[i].cached = cached
            /\ posted[i].failed = failed
            /\ posted[i].total = Len(urls)
            /\ \A j \in 1..Len(posted) : posted[j].to = posted[i].to => j = i

RECURSIVE TrimStart(_)
TrimStart(chars) ==
  IF chars # <<>> /\ Head(chars) = " " THEN TrimStart(Tail(chars)) ELSE chars

RECURSIVE TrimEnd(_)
TrimEnd(chars) ==
  IF chars # <<>> /\ chars[Len(chars)] = " "
    THEN TrimEnd(SubSeq(chars, 1, Len(chars) - 1))
    ELSE chars

\* chars.trim()
Trim(chars) == TrimEnd(TrimStart(chars))

\* the texts of plain (raw) answers
PlainTexts ==
  { <<>>, <<" ">>, <<" ", " ">>, <<"TAF", " ", "RJTT">>,
    <<" ", "TAF", " ", "RJTT", " ">>, <<"<html>">> }

\* the JSON values a /get answer may serialise
JsonValues ==
  { [t |-> "null"], [t |-> "number"],
    [t |-> "object"],
    [t |-> "object", contents |-> [t |-> "null"]],
    [t |-> "object", contents |-> [t |-> "number"]],
    [t |-> "object", contents |-> [t |-> "string", chars |-> <<>>]],
    [t |-> "object", contents |-> [t |-> "string", chars |-> <<" ">>]],
    [t |-> "object",
     contents |-> [t |-> "string", chars |-> <<" ", "TAF", " ", "RJTT">>]] }

\* the bodies r.text() resolves to
Bodies ==
  { [plain |-> chars] : chars \in PlainTexts }
    \cup { [json |-> v] : v \in JsonValues }

\* text.trim(): a serialised JSON value is one piece with no white space
\* around it
TrimText(text) ==
  IF "plain" \in DOMAIN text THEN Trim(text.plain) ELSE <<"{json}">>

\* !text.trim()
IsBlank(text) == TrimText(text) = <<>>

\* awcProxyUrls(path): the endpoints, by kind
awcProxyUrls(dev) == IF dev THEN <<"dev">> ELSE <<"raw", "get">>

\* url.includes("/get?")
IsGetUrl(url) == url = "get"

\* line 38: the value returned for the text of a /get answer, or the
\* error thrown: [ok |-> chars] or [error |-> name]
GetContents(text) ==
  IF "plain" \in DOMAIN text THEN [error |-> "SyntaxError"]
  ELSE LET j == text.json
       IN  IF j.t = "null" THEN [error |-> "TypeError"]
           ELSE IF j.t # "object" \/ "contents" \notin DOMAIN j
             THEN [ok |-> <<>>]
           ELSE IF j.contents.t = "null" THEN [ok |-> <<>>]
           ELSE IF j.contents.t = "string"
             THEN IF j.contents.chars = <<>> THEN [ok |-> <<>>]
                  ELSE [ok |-> Trim(j.contents.chars)]
           ELSE [error |-> "TypeError"]

\* the rest of the loop body is skipped for reason, the answer having had
\* the body text (None if it had none): the next proxy is tried, or line
\* 44 throws
TryNextProxy(reason, text) ==
  /\ tried' = Append(tried, [why |-> reason, body |-> text])
  /\ IF Len(tried) + 1 < Len(proxyUrls)
       THEN proxyPc' = "fetch" /\ UNCHANGED settled
       ELSE /\ proxyPc' = "rejected"
            /\ settled' = [error |-> "All proxies failed"]

Unsettled == [unsettled |-> TRUE]

None == [none |-> TRUE]

\* the page is loaded; fetchViaProxy has not been called
InitProxy ==
  /\ proxyPc = "idle"
  /\ proxyUrls = <<>>
  /\ tried = <<>>
  /\ settled = Unsettled
  /\ ClockIdle /\ PhaseIdle /\ NewMoonIdle /\ CivilIdle /\ WorkerIdle
  /\ PreflightIdle

\* lines 23 - 31: fetchViaProxy(path, signal) up to its first await
CallFetchViaProxy(dev) ==
  /\ proxyPc = "idle"
  /\ proxyUrls' = awcProxyUrls(dev)
  /\ proxyPc' = "fetch"
  /\ UNCHANGED <<tried, settled>>
  /\ UNCHANGED <<clockVars, phaseVars, newMoonVars, civilVars, workerVars>>
  /\ UNCHANGED preflightVars

\* lines 31 - 34, 42: fetch(url) settled: with a response, ok or not, or
\* with an error, the abort of the timer included
ProxyFetchSettles(outcome) ==
  /\ proxyPc = "fetch"
  /\ IF outcome = "ok"
       THEN proxyPc' = "text" /\ UNCHANGED <<tried, settled>>
       ELSE TryNextProxy(outcome, None)
  /\ UNCHANGED proxyUrls
  /\ UNCHANGED <<clockVars, phaseVars, newMoonVars, civilVars, workerVars>>
  /\ UNCHANGED preflightVars

\* lines 34 - 42: r.text() resolved with text
ProxyTextSettles(text) ==
  /\ proxyPc = "text"
  /\ LET url == proxyUrls[Len(tried) + 1]
     IN  IF IsBlank(text) THEN TryNextProxy("empty body", text)
         ELSE IF IsGetUrl(url)
           THEN IF "error" \in DOMAIN GetContents(text)
                  THEN TryNextProxy("unparsable JSON", text)
                  ELSE /\ proxyPc' = "resolved"
                       /\ settled' = [value |-> GetContents(text).ok]
                       /\ UNCHANGED tried
         ELSE /\ proxyPc' = "resolved"
              /\ settled' = [value |-> TrimText(text)]
              /\ UNCHANGED tried
  /\ UNCHANGED proxyUrls
  /\ UNCHANGED <<clockVars, phaseVars, newMoonVars, civilVars, workerVars>>
  /\ UNCHANGED preflightVars

\* lines 34, 42: r.text() rejected
ProxyTextFails ==
  /\ proxyPc = "text"
  /\ TryNextProxy("body error", None)
  /\ UNCHANGED proxyUrls
  /\ UNCHANGED <<clockVars, phaseVars, newMoonVars, civilVars, workerVars>>
  /\ UNCHANGED preflightVars

NextProxy ==
  \/ \E dev \in BOOLEAN : CallFetchViaProxy(dev)
  \/ \E outcome \in {"ok", "non-ok status", "network error", "timeout"} :
       ProxyFetchSettles(outcome)
  \/ \E text \in Bodies : ProxyTextSettles(text)
  \/ ProxyTextFails

SpecProxy == InitProxy /\ [][NextProxy]_vars

(***************************************************************************)
(* C30                                                                     *)
(***************************************************************************)
\* C30: fetchViaProxy tries the proxies in list order and resolves with
\* the non-empty trimmed text of the first proxy that yields one, never
\* with an empty string; it rejects with 'All proxies failed' only after
\* every proxy has failed
C30_ResolvesNonEmptyOrRejects ==
  /\ Len(tried) <= Len(proxyUrls)
  /\ proxyPc = "resolved" =>
       /\ Len(tried) < Len(proxyUrls)
       /\ settled.value # <<>>
       /\ settled.value = Trim(settled.value)
  /\ proxyPc = "rejected" =>
       /\ settled = [error |-> "All proxies failed"]
       /\ Len(tried) = Len(proxyUrls)
  /\ proxyPc \notin {"resolved", "rejected"} => settled = Unsettled

=============================================================================
